---------------------------- MODULE Spec2Model ----------------------------
(***************************************************************************)
(* Model of the futures trading bot: the position ledger                   *)
(* (src/position_manager.py), the exchange query it reconciles against     *)
(* (src/binance_client.py) and the bot life cycle that drives it           *)
(* (src/main.py, src/main_robust.py).                                      *)
(*                                                                         *)
(* Representation.  Prices are integers in units of 0.01 quote currency    *)
(* (10000 is 100.00); quantities are integers; a fraction such as          *)
(* profit_percent or a threshold is an integer number of basis points      *)
(* (75 is 0.0075).  The price sets below are chosen so that every          *)
(* division the code performs is exact in these units.  The wall-clock     *)
(* field entry_time of a position record is not modelled: no operation     *)
(* reads it.                                                               *)
(***************************************************************************)
EXTENDS Integers, Sequences, FiniteSets, TLC

(***************************************************************************)
(* Program constants.                                                      *)
(***************************************************************************)
\* config.TRAILING_STOP_PERCENT = 0.0075, in basis points
TRAILING_STOP_PERCENT == 75
\* max_restarts of main()
max_restarts == 3
\* max_failures of run()
max_failures == 5
\* basis points per unit: the fixed-point unit of profit_percent
BasisPoints == 10000

(***************************************************************************)
(* Bounds of the model.                                                    *)
(***************************************************************************)
\* trading cycles one bot instance may start
MaxCycles == 2

MaxRunCycles == 5

(***************************************************************************)
(* Input sets.                                                             *)
(***************************************************************************)
Symbols == {"BTCUSDT", "ETHUSDT"}

\* order_id is None when the exchange order id is unknown
NoOrder == "None"

\* The brackets add_position is called with: a LONG and a SHORT trade at
\* 100.00 with the stop 2% away and the target at risk_reward 1.5.
TradeInputs ==
    { [side |-> "LONG",  entry_price |-> 10000, quantity |-> 1,
       stop_loss |-> 9800,  take_profit |-> 10300, order_id |-> "ord"],
      [side |-> "SHORT", entry_price |-> 10000, quantity |-> 1,
       stop_loss |-> 10200, take_profit |-> 9700,  order_id |-> "ord"] }

\* Prices passed to should_activate_trailing_stop: a loss from 100.00,
\* exactly the 0.75% activation threshold, and a move above it.
MarketPrices == {9900, 10075, 10100}

\* Prices passed to update_position_pnl.
PnlPrices == {10100}

\* Candidate stops passed to update_trailing_stop.
StopCandidates == {9900, 10200}

\* Activation thresholds passed to should_activate_trailing_stop.
Thresholds == {TRAILING_STOP_PERCENT}

\* Keyword arguments passed to update_position (the last has a key no
\* position record holds).
UpdateKwargs ==
    { [current_stop_loss |-> 9700],
      [trailing_stop_active |-> FALSE],
      [note |-> 0] }

\* One entry of futures_position_information(): signed amount and entry price.
Flat == [positionAmt |-> 0, entryPrice |-> 0]

LongInfo == [positionAmt |-> 2, entryPrice |-> 10000]

ShortInfo == [positionAmt |-> -1, entryPrice |-> 12500]

\* What the exchange holds: one entry per symbol (one-way position mode).
\* Nothing open, one long, one short, or both.
ExchangeBooks ==
    { [s \in Symbols |-> Flat],
      [s \in Symbols |-> IF s = "BTCUSDT" THEN LongInfo ELSE Flat],
      [s \in Symbols |-> IF s = "ETHUSDT" THEN ShortInfo ELSE Flat],
      [s \in Symbols |-> IF s = "BTCUSDT" THEN LongInfo ELSE ShortInfo] }

\* How the call of futures_position_information() ends: with the book, with
\* a BinanceAPIException, or with any other exception (a network error).
\* A failed call delivers no book.
NoBook == <<>>

Queries ==
    {[outcome |-> "ok", book |-> b] : b \in ExchangeBooks}
        \cup {[outcome |-> o, book |-> NoBook] :
                 o \in {"api_exception", "other_exception"}}

\* Answers of futures_position_information() with a malformed entry: a long
\* BTCUSDT position followed by an ETHUSDT entry without its entryPrice, and
\* a BTCUSDT entry without its positionAmt.
MalformedQueries ==
    {[outcome |-> "ok",
      book |-> [s \in Symbols |-> IF s = "BTCUSDT" THEN LongInfo
                                  ELSE [positionAmt |-> 0 - 1]]],
     [outcome |-> "ok",
      book |-> [s \in Symbols |-> IF s = "BTCUSDT" THEN [entryPrice |-> 10000]
                                  ELSE ShortInfo]]}

\* no stream message is being processed
NoMessage == [kind |-> "none", s |-> "-", i |-> "-", t |-> 0, c |-> 0]

\* How the write of positions.json ends: complete, or refused at open().
SaveOutcomes == {"written", "open_failed"}

VARIABLES
    positions,      \* PositionManager.positions: symbol -> position record
    file,           \* positions.json: [state, content]
    ret,            \* what the last operation returned
    lastOp,         \* the last operation: [op, symbol, arg]
    query,          \* the exchange query of the last reconcile_positions
    activated,      \* symbols for whose position the latch call returned True
    entrypoint,     \* the script that was started: "main" or "main_robust"
    pc,             \* where the process is
    running,        \* RobustTradingBot.running
    restart_count,  \* restart_count of main()
    reconciled,     \* reconcile_positions returned True for this bot instance
    cycle_count,    \* RobustTradingBot.cycle_count
    consecutive_failures,   \* consecutive_failures of run()
    analysis_results,   \* analysis_results of run_cycle_safe
    is_running,     \* KlineDataStreamer.is_running
    stream_pc,      \* where the stream thread is
    klines,         \* KlineDataStreamer.klines
    current_prices, \* KlineDataStreamer.current_prices
    lock,           \* KlineDataStreamer.lock: "free" or the thread holding it
    stream_msg      \* msg of start_stream: the message being processed

ledgerVars == <<positions, file, ret, lastOp, query, activated>>

cycleVars == <<analysis_results>>

streamVars == <<is_running, stream_pc, klines, current_prices, lock, stream_msg>>

botVars == <<entrypoint, pc, running, restart_count, reconciled, cycle_count,
             consecutive_failures, cycleVars, streamVars>>

vars == <<positions, file, ret, lastOp, query, activated, entrypoint, pc,
          running, restart_count, reconciled, cycle_count,
          consecutive_failures, analysis_results, is_running, stream_pc,
          klines, current_prices, lock, stream_msg>>

EmptyLedger == <<>>

NoQuery == [outcome |-> "none", book |-> <<>>]

(***************************************************************************)
(* PositionManager: the operations as functions of the ledger.  Each       *)
(* yields the new ledger and the value returned.                           *)
(***************************************************************************)
NewPosition(symbol, t) ==
    [ symbol               |-> symbol,
      side                 |-> t.side,
      entry_price          |-> t.entry_price,
      quantity             |-> t.quantity,
      stop_loss            |-> t.stop_loss,
      take_profit          |-> t.take_profit,
      order_id             |-> t.order_id,
      status               |-> "OPEN",
      trailing_stop_active |-> FALSE,
      current_stop_loss    |-> t.stop_loss,
      max_profit           |-> 0,
      current_pnl          |-> 0 ]

\* a ledger that appends: the record of a symbol that already has one is kept
\* beside it, under a free key
Put_appending(pos, symbol, rec) ==
    IF symbol \in DOMAIN pos /\ Symbols \ DOMAIN pos # {}
    THEN LET k == CHOOSE x \in Symbols \ DOMAIN pos : TRUE
         IN  [s \in (DOMAIN pos) \cup {k} |-> IF s = k THEN rec ELSE pos[s]]
    ELSE [s \in (DOMAIN pos) \cup {symbol} |->
             IF s = symbol THEN rec ELSE pos[s]]

\* self.positions[symbol] = position_data
Put(pos, symbol, rec) ==
    [s \in (DOMAIN pos) \cup {symbol} |-> IF s = symbol THEN rec ELSE pos[s]]

\* del self.positions[symbol]
Del(pos, symbol) ==
    [s \in (DOMAIN pos) \ {symbol} |-> pos[s]]

add_position(pos, symbol, t) ==
    [positions |-> Put(pos, symbol, NewPosition(symbol, t)), ret |-> TRUE]

\* remove_position dropping the whole ledger
remove_position_all(pos, symbol) ==
    IF symbol \in DOMAIN pos
    THEN [positions |-> <<>>, ret |-> TRUE]
    ELSE [positions |-> pos, ret |-> FALSE]

remove_position(pos, symbol) ==
    IF symbol \in DOMAIN pos
    THEN [positions |-> Del(pos, symbol), ret |-> TRUE]
    ELSE [positions |-> pos, ret |-> FALSE]

get_position(pos, symbol) ==
    IF symbol \in DOMAIN pos THEN {pos[symbol]} ELSE {}

update_position(pos, symbol, kwargs) ==
    IF symbol \in DOMAIN pos
    THEN [positions |->
            Put(pos, symbol,
                [k \in DOMAIN pos[symbol] |->
                    IF k \in DOMAIN kwargs THEN kwargs[k] ELSE pos[symbol][k]]),
          ret |-> TRUE]
    ELSE [positions |-> pos, ret |-> FALSE]

\* (current_price - entry_price) / entry_price for LONG, mirrored for SHORT
ProfitPercent(side, entry_price, current_price) ==
    IF side = "LONG"
    THEN ((current_price - entry_price) * BasisPoints) \div entry_price
    ELSE ((entry_price - current_price) * BasisPoints) \div entry_price

Pnl(side, entry_price, quantity, current_price) ==
    IF side = "LONG"
    THEN (current_price - entry_price) * quantity
    ELSE (entry_price - current_price) * quantity

\* update_position_pnl keeping the last profit_percent in max_profit
update_position_pnl_last(pos, symbol, current_price) ==
    IF symbol \notin DOMAIN pos
    THEN [positions |-> pos, ret |-> 0]
    ELSE LET p == pos[symbol]
             pnl == Pnl(p.side, p.entry_price, p.quantity, current_price)
             profit_percent == ProfitPercent(p.side, p.entry_price, current_price)
         IN  IF p.entry_price = 0
             THEN [positions |-> pos, ret |-> 0]
             ELSE [positions |->
                     Put(pos, symbol,
                         [p EXCEPT !.current_pnl = pnl,
                                   !.max_profit = profit_percent]),
                   ret |-> pnl]

update_position_pnl(pos, symbol, current_price) ==
    IF symbol \notin DOMAIN pos
    THEN [positions |-> pos, ret |-> 0]
    ELSE LET p == pos[symbol]
             pnl == Pnl(p.side, p.entry_price, p.quantity, current_price)
             profit_percent == ProfitPercent(p.side, p.entry_price, current_price)
         IN  IF p.entry_price = 0
             THEN \* ZeroDivisionError, caught: return 0.0
                  [positions |-> pos, ret |-> 0]
             ELSE [positions |->
                     Put(pos, symbol,
                         [p EXCEPT !.current_pnl = pnl,
                                   !.max_profit =
                                       IF profit_percent > p.max_profit
                                       THEN profit_percent ELSE p.max_profit]),
                   ret |-> pnl]

should_activate_trailing_stop(pos, symbol, current_price, activation_threshold) ==
    IF symbol \notin DOMAIN pos
    THEN [positions |-> pos, ret |-> FALSE]
    ELSE LET p == pos[symbol] IN
         IF p.trailing_stop_active
         THEN [positions |-> pos, ret |-> TRUE]
         ELSE IF p.entry_price = 0
         THEN \* ZeroDivisionError, caught: return False
              [positions |-> pos, ret |-> FALSE]
         ELSE IF ProfitPercent(p.side, p.entry_price, current_price)
                    >= activation_threshold
         THEN [positions |->
                 Put(pos, symbol, [p EXCEPT !.trailing_stop_active = TRUE]),
               ret |-> TRUE]
         ELSE [positions |-> pos, ret |-> FALSE]

\* should_update with the comparison not strict
should_update_not_strict(side, new_stop_loss, current_stop) ==
    IF side = "LONG"
    THEN new_stop_loss >= current_stop
    ELSE new_stop_loss <= current_stop

\* LONG: the new stop must be higher; SHORT: lower
should_update(side, new_stop_loss, current_stop) ==
    IF side = "LONG"
    THEN new_stop_loss > current_stop
    ELSE new_stop_loss < current_stop

update_trailing_stop(pos, symbol, new_stop_loss) ==
    IF symbol \notin DOMAIN pos
    THEN [positions |-> pos, ret |-> FALSE]
    ELSE LET p == pos[symbol] IN
         IF should_update(p.side, new_stop_loss, p.current_stop_loss)
         THEN [positions |->
                 Put(pos, symbol, [p EXCEPT !.current_stop_loss = new_stop_loss]),
               ret |-> TRUE]
         ELSE [positions |-> pos, ret |-> FALSE]


(***************************************************************************)
(* positions.json.  json.dump writes the dict of records (strings, numbers,*)
(* booleans, None); json.load reads the same dict back, so a complete file *)
(* holds a ledger.  open(filename, 'w') truncates the file before anything *)
(* is written.                                                             *)
(***************************************************************************)
MissingFile == [state |-> "missing", content |-> EmptyLedger]

CompleteFile(pos) == [state |-> "complete", content |-> pos]

\* what open(filename, 'w') leaves until the dump is flushed
TruncatedFile == [state |-> "truncated", content |-> EmptyLedger]

save_positions_to_file(f, pos, outcome) ==
    CASE outcome = "written"     -> [file |-> CompleteFile(pos), ret |-> TRUE]
      [] outcome = "open_failed" -> [file |-> f, ret |-> FALSE]

load_positions_from_file(f, pos) ==
    CASE f.state = "complete"  -> [positions |-> f.content, ret |-> TRUE]
      [] f.state = "missing"   -> [positions |-> pos, ret |-> TRUE]
      [] f.state = "truncated" -> [positions |-> pos, ret |-> FALSE]

(***************************************************************************)
(* BinanceAPIClient.get_open_positions: the entries with a non-zero amount;*)
(* a BinanceAPIException is caught and an empty list returned; any other   *)
(* exception leaves the method.                                            *)
(***************************************************************************)
NonZero(book) == {s \in DOMAIN book : book[s].positionAmt # 0}

get_open_positions(q) ==
    CASE q.outcome = "ok" ->
            IF \E s \in DOMAIN q.book : "positionAmt" \notin DOMAIN q.book[s]
            THEN \* p['positionAmt']: KeyError, not caught here
                 [raised |-> TRUE, list |-> <<>>]
            ELSE [raised |-> FALSE,
                  list |-> [s \in NonZero(q.book) |-> q.book[s]]]
      [] q.outcome = "api_exception" ->
            [raised |-> FALSE, list |-> <<>>]
      [] q.outcome = "other_exception" ->
            [raised |-> TRUE, list |-> <<>>]

Abs(x) == IF x < 0 THEN -x ELSE x

\* ReconciledPosition with the signed amount kept as the quantity
ReconciledPosition_signed(symbol, info) ==
    [ symbol               |-> symbol,
      side                 |-> IF info.positionAmt > 0 THEN "LONG" ELSE "SHORT",
      entry_price          |-> info.entryPrice,
      quantity             |-> info.positionAmt,
      stop_loss            |-> 0,
      take_profit          |-> 0,
      order_id             |-> NoOrder,
      status               |-> "OPEN",
      trailing_stop_active |-> FALSE,
      current_stop_loss    |-> 0,
      max_profit           |-> 0,
      current_pnl          |-> 0 ]

\* the record reconcile_positions builds for one reported position
ReconciledPosition(symbol, info) ==
    [ symbol               |-> symbol,
      side                 |-> IF info.positionAmt > 0 THEN "LONG" ELSE "SHORT",
      entry_price          |-> info.entryPrice,
      quantity             |-> Abs(info.positionAmt),
      stop_loss            |-> 0,
      take_profit          |-> 0,
      order_id             |-> NoOrder,
      status               |-> "OPEN",
      trailing_stop_active |-> FALSE,
      current_stop_loss    |-> 0,
      max_profit           |-> 0,
      current_pnl          |-> 0 ]

\* reconcile_positions writing self.positions entry by entry: the entries
\* built before a malformed one stay
reconcile_positions_in_place(pos, f, exchange, saveOutcome) ==
    LET q == get_open_positions(exchange)
        wellformed == {x \in DOMAIN q.list : "entryPrice" \in DOMAIN q.list[x]}
        reconciled_positions ==
            [s \in wellformed |-> ReconciledPosition(s, q.list[s])]
    IN  IF q.raised
        THEN [positions |-> pos, file |-> f, ret |-> FALSE]
        ELSE IF DOMAIN q.list = {}
        THEN [positions |-> EmptyLedger, file |-> f, ret |-> TRUE]
        ELSE IF wellformed # DOMAIN q.list
        THEN [positions |-> reconciled_positions, file |-> f, ret |-> FALSE]
        ELSE [positions |-> reconciled_positions,
              file |-> save_positions_to_file(f, reconciled_positions,
                                              saveOutcome).file,
              ret |-> TRUE]

\* reconciled_positions is a local dictionary: self.positions is assigned
\* once, after the loop
reconcile_positions(pos, f, exchange, saveOutcome) ==
    LET q == get_open_positions(exchange)
        reconciled_positions ==
            [s \in {x \in DOMAIN q.list : q.list[x].positionAmt # 0}
                |-> ReconciledPosition(s, q.list[s])]
    IN  IF q.raised
        THEN [positions |-> pos, file |-> f, ret |-> FALSE]
        ELSE IF DOMAIN q.list = {}
        THEN [positions |-> EmptyLedger, file |-> f, ret |-> TRUE]
        ELSE IF \E s \in DOMAIN q.list : "entryPrice" \notin DOMAIN q.list[s]
        THEN \* position_data['entryPrice']: KeyError, caught by the except
             [positions |-> pos, file |-> f, ret |-> FALSE]
        ELSE [positions |-> reconciled_positions,
              file |-> save_positions_to_file(f, reconciled_positions,
                                              saveOutcome).file,
              ret |-> TRUE]

(***************************************************************************)
(* The ledger as an object: any caller may invoke any operation.           *)
(***************************************************************************)
Op(name, symbol, arg) == [op |-> name, symbol |-> symbol, arg |-> arg]

Init ==
    /\ positions = EmptyLedger
    /\ file = MissingFile
    /\ ret = TRUE
    /\ lastOp = Op("__init__", "-", 0)
    /\ query = NoQuery
    /\ activated = {}
    /\ entrypoint = "none"
    /\ pc = "object"
    /\ running = FALSE
    /\ restart_count = 0
    /\ reconciled = FALSE
    /\ cycle_count = 0
    /\ consecutive_failures = 0
    /\ analysis_results = <<>>
    /\ is_running = FALSE
    /\ stream_pc = "none"
    /\ klines = <<>>
    /\ current_prices = <<>>
    /\ lock = "free"
    /\ stream_msg = NoMessage

AddPosition(s, t) ==
    LET r == add_position(positions, s, t) IN
    /\ positions' = r.positions
    /\ ret' = r.ret
    /\ lastOp' = Op("add_position", s, 0)
    /\ activated' = activated \ {s}
    /\ query' = NoQuery
    /\ UNCHANGED <<file, botVars>>

RemovePosition(s) ==
    LET r == remove_position(positions, s) IN
    /\ positions' = r.positions
    /\ ret' = r.ret
    /\ lastOp' = Op("remove_position", s, 0)
    /\ activated' = activated \ {s}
    /\ query' = NoQuery
    /\ UNCHANGED <<file, botVars>>

UpdatePosition(s, kwargs) ==
    LET r == update_position(positions, s, kwargs) IN
    /\ positions' = r.positions
    /\ ret' = r.ret
    /\ lastOp' = Op("update_position", s, 0)
    /\ query' = NoQuery
    /\ UNCHANGED <<file, activated, botVars>>

UpdatePositionPnl(s, price) ==
    LET r == update_position_pnl(positions, s, price) IN
    /\ positions' = r.positions
    /\ ret' = r.ret
    /\ lastOp' = Op("update_position_pnl", s, price)
    /\ query' = NoQuery
    /\ UNCHANGED <<file, activated, botVars>>

ShouldActivateTrailingStop(s, price, threshold) ==
    LET r == should_activate_trailing_stop(positions, s, price, threshold) IN
    /\ positions' = r.positions
    /\ ret' = r.ret
    /\ lastOp' = Op("should_activate_trailing_stop", s, price)
    /\ activated' = IF r.ret THEN activated \cup {s} ELSE activated
    /\ query' = NoQuery
    /\ UNCHANGED <<file, botVars>>

UpdateTrailingStop(s, new_stop_loss) ==
    LET r == update_trailing_stop(positions, s, new_stop_loss) IN
    /\ positions' = r.positions
    /\ ret' = r.ret
    /\ lastOp' = Op("update_trailing_stop", s, new_stop_loss)
    /\ query' = NoQuery
    /\ UNCHANGED <<file, activated, botVars>>

ReconcilePositions(exchange, saveOutcome) ==
    LET r == reconcile_positions(positions, file, exchange, saveOutcome) IN
    /\ positions' = r.positions
    /\ file' = r.file
    /\ ret' = r.ret
    /\ lastOp' = Op("reconcile_positions", "-", 0)
    /\ query' = exchange
    /\ activated' = IF r.ret THEN {} ELSE activated
    /\ UNCHANGED botVars

Next ==
    \/ \E s \in Symbols, t \in TradeInputs : AddPosition(s, t)
    \/ \E s \in Symbols : RemovePosition(s)
    \/ \E s \in Symbols, kwargs \in UpdateKwargs : UpdatePosition(s, kwargs)
    \/ \E s \in Symbols, price \in PnlPrices : UpdatePositionPnl(s, price)
    \/ \E s \in Symbols, price \in MarketPrices, threshold \in Thresholds :
          ShouldActivateTrailingStop(s, price, threshold)
    \/ \E s \in Symbols, c \in StopCandidates : UpdateTrailingStop(s, c)
    \/ \E exchange \in Queries, saveOutcome \in SaveOutcomes :
          ReconcilePositions(exchange, saveOutcome)

Spec == Init /\ [][Next]_vars

(***************************************************************************)
(* TradingStrategy, TechnicalAnalysis and RiskManager.can_open_new_position *)
(* as functions of what the feed and the indicator library deliver.        *)
(*                                                                         *)
(* A float is a record [nan, v]: NaN, or the number v.  Comparisons with   *)
(* NaN are false, as in Python.  Prices and indicator values are integers; *)
(* a confidence is an integer number of tenths (10 is 1.0).  A candle      *)
(* series is represented by its length and its last two closes; an         *)
(* indicator series by its last two values, which the library computes     *)
(* only when the series is at least as long as the indicator's period.     *)
(***************************************************************************)
EMA_200_PERIOD == 200
EMA_20_PERIOD == 20
RSI_PERIOD == 14
RSI_OVERBOUGHT == 75
RSI_OVERSOLD == 25
RSI_BUY_ENTRY == 40
RSI_SELL_ENTRY == 60
MACD_SLOW_PERIOD == 26
MACD_SIGNAL_PERIOD == 9
MAX_CONCURRENT_TRADES == 2
\* limit of the 4h request of analyze_symbol
Limit4h == 200
\* limit of the 15m request of analyze_symbol
Limit15m == 100
\* tenths per unit: the fixed-point unit of a confidence
Tenths == 10

NaN == [nan |-> TRUE, v |-> 0]

Num(x) == [nan |-> FALSE, v |-> x]

\* a > b, a < b, a <= b on floats
Gt(a, b) == ~a.nan /\ ~b.nan /\ a.v > b.v

Lt(a, b) == ~a.nan /\ ~b.nan /\ a.v < b.v

Le(a, b) == ~a.nan /\ ~b.nan /\ a.v <= b.v

\* What pandas_ta returns for a series shorter than the period: None
\* (the series fails its length check) or a series whose last value is NaN.
ShortSeriesResults == {"None", "NaN"}

\* BinanceAPIClient.get_klines: the frame; an empty frame after a
\* BinanceAPIException; any other exception leaves the method.
get_klines(feed) ==
    CASE feed.outcome = "ok" -> [raised |-> FALSE, len |-> feed.len]
      [] feed.outcome = "api_exception" -> [raised |-> FALSE, len |-> 0]
      [] feed.outcome = "other_exception" -> [raised |-> TRUE, len |-> 0]

\* calculate_ema: the last value of ta.ema(data, length=period)
calculate_ema(len, period, value, short) ==
    IF len = 0 THEN [none |-> FALSE, empty |-> TRUE, last |-> NaN]
    ELSE IF len < period
    THEN IF short = "None"
         THEN [none |-> TRUE, empty |-> FALSE, last |-> NaN]
         ELSE [none |-> FALSE, empty |-> FALSE, last |-> NaN]
    ELSE [none |-> FALSE, empty |-> FALSE, last |-> value]

\* get_trend_direction; raised: ema_200.empty on None (AttributeError)
get_trend_direction(len, close, ema200, short) ==
    IF len = 0
    THEN [raised |-> FALSE, trend |-> "SIDEWAYS"]
    ELSE LET ema == calculate_ema(len, EMA_200_PERIOD, ema200, short) IN
         IF ema.none THEN [raised |-> TRUE, trend |-> "SIDEWAYS"]
         ELSE IF ema.empty \/ ema.last.nan
         THEN [raised |-> FALSE, trend |-> "SIDEWAYS"]
         ELSE IF Gt(close, ema.last) THEN [raised |-> FALSE, trend |-> "UPTREND"]
         ELSE IF Lt(close, ema.last) THEN [raised |-> FALSE, trend |-> "DOWNTREND"]
         ELSE [raised |-> FALSE, trend |-> "SIDEWAYS"]

\* check_ema_crossover of the 15m frame k: [len, prev_close, close,
\* prev_ema, ema]
check_ema_crossover(k, ema_period, direction) ==
    IF k.len = 0 \/ k.len < ema_period + 1
    THEN FALSE
    ELSE IF k.ema.nan \/ k.prev_ema.nan
    THEN FALSE
    ELSE IF direction = "UP"
    THEN Gt(k.close, k.ema) /\ Lt(k.prev_close, k.prev_ema)
    ELSE IF direction = "DOWN"
    THEN Lt(k.close, k.ema) /\ Gt(k.prev_close, k.prev_ema)
    ELSE FALSE

\* is_rsi_in_range with its bounds excluded
is_rsi_in_range_open(rsi_value, min_val, max_val) ==
    Lt(Num(min_val), rsi_value) /\ Lt(rsi_value, Num(max_val))

is_rsi_in_range(rsi_value, min_val, max_val) ==
    Le(Num(min_val), rsi_value) /\ Le(rsi_value, Num(max_val))

\* macd_15m = {}
NoMacd == [present |-> FALSE, MACD |-> NaN, SIGNAL |-> NaN]

MacdOf(m, sig) == [present |-> TRUE, MACD |-> m, SIGNAL |-> sig]

\* not macd_15m or pd.isna(MACD) or pd.isna(SIGNAL)
MacdUnavailable(macd_15m) ==
    ~macd_15m.present \/ macd_15m.MACD.nan \/ macd_15m.SIGNAL.nan

check_long_conditions(trend_4h, klines_15m, rsi_15m, macd_15m) ==
    IF trend_4h # "UPTREND" THEN FALSE
    ELSE IF ~check_ema_crossover(klines_15m, EMA_20_PERIOD, "UP") THEN FALSE
    ELSE IF ~is_rsi_in_range(rsi_15m, RSI_BUY_ENTRY, RSI_OVERBOUGHT) THEN FALSE
    ELSE IF MacdUnavailable(macd_15m) THEN FALSE
    ELSE IF ~Gt(macd_15m.MACD, macd_15m.SIGNAL) THEN FALSE
    ELSE TRUE

check_short_conditions(trend_4h, klines_15m, rsi_15m, macd_15m) ==
    IF trend_4h # "DOWNTREND" THEN FALSE
    ELSE IF ~check_ema_crossover(klines_15m, EMA_20_PERIOD, "DOWN") THEN FALSE
    ELSE IF ~is_rsi_in_range(rsi_15m, RSI_OVERSOLD, RSI_SELL_ENTRY) THEN FALSE
    ELSE IF MacdUnavailable(macd_15m) THEN FALSE
    ELSE IF ~Lt(macd_15m.MACD, macd_15m.SIGNAL) THEN FALSE
    ELSE TRUE

generate_signal(trend_4h, klines_15m, rsi_15m, macd_15m) ==
    IF check_long_conditions(trend_4h, klines_15m, rsi_15m, macd_15m)
    THEN "LONG"
    ELSE IF check_short_conditions(trend_4h, klines_15m, rsi_15m, macd_15m)
    THEN "SHORT"
    ELSE "HOLD"

\* min(confidence, 1.0), in tenths
Min(a, b) == IF a < b THEN a ELSE b

_calculate_signal_confidence(analysis_result) ==
    LET rsi == analysis_result.rsi_15m
        macd == analysis_result.macd_15m
        f1 == IF analysis_result.trend_4h \in {"UPTREND", "DOWNTREND"}
              THEN 3 ELSE 0
        f2 == IF Lt(Num(30), rsi) /\ Lt(rsi, Num(70)) THEN 2 ELSE 0
        f3 == IF MacdUnavailable(macd) THEN 0
              ELSE IF /\ analysis_result.signal = "LONG"
                      /\ Gt(macd.MACD, macd.SIGNAL) /\ Gt(macd.MACD, Num(0))
              THEN 3
              ELSE IF /\ analysis_result.signal = "SHORT"
                      /\ Lt(macd.MACD, macd.SIGNAL) /\ Lt(macd.MACD, Num(0))
              THEN 3
              ELSE 0
        f4 == IF analysis_result.signal # "HOLD" THEN 2 ELSE 0
    IN  Min(f1 + f2 + f3 + f4, Tenths)

\* the analysis_result analyze_symbol starts from
DefaultAnalysis(symbol) ==
    [ symbol        |-> symbol,
      signal        |-> "HOLD",
      trend_4h      |-> "SIDEWAYS",
      rsi_15m       |-> Num(0),
      macd_15m      |-> NoMacd,
      current_price |-> 0,
      confidence    |-> 0 ]

\* ta.rsi(close, length=14).iloc[-1] of a frame of len rows
calculate_rsi(len, value) ==
    IF len <= RSI_PERIOD THEN NaN ELSE value

\* calculate_macd(...).iloc[-1].  Below the slow period the library gives
\* no frame; with a MACD line too short for its signal line it either
\* raises (the signal line is None) or gives a NaN signal value.
calculate_macd(len, macd, short) ==
    IF len < MACD_SLOW_PERIOD \/ ~macd.present
    THEN [raised |-> FALSE, macd |-> NoMacd]
    ELSE IF len < MACD_SLOW_PERIOD + MACD_SIGNAL_PERIOD - 1
    THEN IF short = "None"
         THEN [raised |-> TRUE, macd |-> NoMacd]
         ELSE [raised |-> FALSE, macd |-> MacdOf(macd.MACD, NaN)]
    ELSE [raised |-> FALSE, macd |-> macd]

\* The body of analyze_symbol for the market m:
\*   m.feed_4h, m.feed_15m  how get_klines ends and the rows it delivers
\*   m.price                get_current_price
\*   m.close_4h, m.ema200   last 4h close and EMA(200)
\*   m.k15                  last two 15m closes and EMA(20) values
\*   m.rsi, m.macd          last RSI and MACD values
\*   m.short                the library's answer for a short series
\* raised: an exception left the body.
analyze_symbol_body(symbol, m) ==
    LET d == DefaultAnalysis(symbol)
        k4 == get_klines(m.feed_4h)
        k15 == get_klines(m.feed_15m)
        t == get_trend_direction(k4.len, m.close_4h, m.ema200, m.short)
        priced == [d EXCEPT !.current_price = m.price]
        rsi == calculate_rsi(k15.len, m.rsi)
        rsi_15m == IF rsi.nan THEN Num(0) ELSE rsi
        mc == calculate_macd(k15.len, m.macd, m.short)
        macd_15m == mc.macd
        klines_15m == [len |-> k15.len,
                       prev_close |-> m.k15.prev_close, close |-> m.k15.close,
                       prev_ema |-> IF k15.len < EMA_20_PERIOD + 1
                                    THEN NaN ELSE m.k15.prev_ema,
                       ema |-> IF k15.len < EMA_20_PERIOD
                               THEN NaN ELSE m.k15.ema]
        signal == generate_signal(t.trend, klines_15m, rsi_15m, macd_15m)
        filled == [priced EXCEPT !.trend_4h = t.trend, !.rsi_15m = rsi_15m,
                                 !.macd_15m = macd_15m, !.signal = signal]
    IN  IF k4.raised THEN [raised |-> TRUE, result |-> d]
        ELSE IF k4.len = 0 THEN [raised |-> FALSE, result |-> d]
        ELSE IF k15.raised THEN [raised |-> TRUE, result |-> d]
        ELSE IF k15.len = 0 THEN [raised |-> FALSE, result |-> d]
        ELSE IF t.raised THEN [raised |-> TRUE, result |-> priced]
        ELSE IF mc.raised
        THEN [raised |-> TRUE,
              result |-> [priced EXCEPT !.trend_4h = t.trend,
                                        !.rsi_15m = rsi_15m]]
        ELSE [raised |-> FALSE,
              result |-> [filled EXCEPT
                            !.confidence = _calculate_signal_confidence(filled)]]

\* analyze_symbol with no except clause around its body
analyze_symbol_uncaught(symbol, m) ==
    analyze_symbol_body(symbol, m)

\* analyze_symbol: an exception of the body is caught and the
\* analysis_result built so far is returned
analyze_symbol(symbol, m) ==
    [raised |-> FALSE, result |-> analyze_symbol_body(symbol, m).result]

\* can_open_new_position never reporting the limit
can_open_new_position_unlimited(q) == TRUE

\* RiskManager.can_open_new_position, given how the position query ends
can_open_new_position(q) ==
    LET r == get_open_positions(q) IN
    IF r.raised THEN FALSE
    ELSE Cardinality({s \in DOMAIN r.list : r.list[s].positionAmt # 0})
            < MAX_CONCURRENT_TRADES

(***************************************************************************)
(* The strategy and the risk check as objects: any caller may invoke       *)
(* analyze_symbol, generate_signal and can_open_new_position.              *)
(***************************************************************************)
\* how a get_klines request ends and the rows it delivers
Feeds4h ==
    {[outcome |-> "ok", len |-> n] : n \in {150, Limit4h}}
        \cup {[outcome |-> o, len |-> 0] :
                 o \in {"ok", "api_exception", "other_exception"}}

Feeds15m ==
    {[outcome |-> "ok", len |-> n] : n \in {10, 20, 30, 50, Limit15m}}
        \cup {[outcome |-> o, len |-> 0] :
                 o \in {"api_exception", "other_exception"}}

\* last 4h close against an EMA(200) of 100: above, below, equal
Closes4h == {101, 99, 100}

\* last two 15m closes against an EMA(20) of 100 at both candles
Closes15m ==
    {[prev_close |-> Num(a), close |-> Num(b),
      prev_ema |-> Num(100), ema |-> Num(100)] : a, b \in {99, 100, 101}}

\* upward cross, downward cross, no cross
Crosses15m ==
    {k \in Closes15m : <<k.prev_close.v, k.close.v>> \in
                          {<<99, 101>>, <<101, 99>>, <<101, 101>>}}

RsiValues ==
    {NaN} \cup {Num(x) : x \in {24, 25, 30, 39, 40, 55, 60, 61, 70, 75, 76}}

MacdValues ==
    {NoMacd, MacdOf(NaN, Num(10)), MacdOf(Num(10), NaN)}
        \cup {MacdOf(Num(a), Num(b)) :
                 <<a, b>> \in {<<12, 10>>, <<10, 12>>, <<10, 10>>,
                               <<0 - 10, 0 - 12>>, <<0 - 12, 0 - 10>>}}

Trends == {"UPTREND", "DOWNTREND", "SIDEWAYS"}

\* lengths of the 15m frame around the EMA(20) crossover's need of 21 rows
FrameLengths == {20, 21, Limit15m}

Markets ==
    [ feed_4h : Feeds4h, feed_15m : Feeds15m, price : {10000},
      close_4h : {Num(c) : c \in Closes4h}, ema200 : {Num(100)},
      k15 : Crosses15m,
      rsi : {Num(x) : x \in {30, 45, 55, 70, 80}},
      macd : {MacdOf(Num(12), Num(10)), MacdOf(Num(0 - 12), Num(0 - 10)),
              MacdOf(Num(0 - 10), Num(0 - 12)), NoMacd},
      short : ShortSeriesResults ]

\* the calls a caller may make, with their arguments
StrategyCalls ==
    {Op("analyze_symbol", s, m) : s \in Symbols, m \in Markets}
        \cup {Op("generate_signal", "-",
                 [trend_4h |-> t,
                  klines_15m |-> [len |-> n, prev_close |-> k.prev_close,
                                  close |-> k.close, prev_ema |-> k.prev_ema,
                                  ema |-> k.ema],
                  rsi_15m |-> r, macd_15m |-> c]) :
                 t \in Trends, n \in FrameLengths, k \in Closes15m,
                 r \in RsiValues, c \in MacdValues}
        \cup {Op("can_open_new_position", "-", q) : q \in Queries}

StrategyInit ==
    /\ positions = EmptyLedger
    /\ file = MissingFile
    /\ ret = FALSE
    /\ lastOp \in StrategyCalls
    /\ query = NoQuery
    /\ activated = {}
    /\ entrypoint = "none"
    /\ pc = "call"
    /\ running = FALSE
    /\ restart_count = 0
    /\ reconciled = FALSE
    /\ cycle_count = 0
    /\ consecutive_failures = 0
    /\ analysis_results = <<>>
    /\ is_running = FALSE
    /\ stream_pc = "none"
    /\ klines = <<>>
    /\ current_prices = <<>>
    /\ lock = "free"
    /\ stream_msg = NoMessage

AnalyzeSymbol ==
    /\ pc = "call"
    /\ lastOp.op = "analyze_symbol"
    /\ ret' = analyze_symbol(lastOp.symbol, lastOp.arg)
    /\ pc' = "returned"
    /\ UNCHANGED <<positions, file, lastOp, query, activated, entrypoint,
                   running, restart_count, reconciled, cycle_count,
                   consecutive_failures, cycleVars, streamVars>>

GenerateSignal ==
    /\ pc = "call"
    /\ lastOp.op = "generate_signal"
    /\ ret' = generate_signal(lastOp.arg.trend_4h, lastOp.arg.klines_15m,
                              lastOp.arg.rsi_15m, lastOp.arg.macd_15m)
    /\ pc' = "returned"
    /\ UNCHANGED <<positions, file, lastOp, query, activated, entrypoint,
                   running, restart_count, reconciled, cycle_count,
                   consecutive_failures, cycleVars, streamVars>>

CanOpenNewPosition ==
    /\ pc = "call"
    /\ lastOp.op = "can_open_new_position"
    /\ ret' = can_open_new_position(lastOp.arg)
    /\ query' = lastOp.arg
    /\ pc' = "returned"
    /\ UNCHANGED <<positions, file, lastOp, activated, entrypoint,
                   running, restart_count, reconciled, cycle_count,
                   consecutive_failures, cycleVars, streamVars>>

StrategyNext ==
    \/ AnalyzeSymbol
    \/ GenerateSignal
    \/ CanOpenNewPosition

StrategySpec == StrategyInit /\ [][StrategyNext]_vars

(***************************************************************************)
(* The bot process: main() of main.py or of main_robust.py, with           *)
(* initialize_components, run, run_cycle_safe and shutdown.                *)
(***************************************************************************)
\* positions.json when the process is first started: absent, left by an
\* earlier run, or cut short by an earlier run.
StaleLedger ==
    Put(EmptyLedger, "BTCUSDT",
        NewPosition("BTCUSDT",
            [side |-> "LONG", entry_price |-> 10000, quantity |-> 1,
             stop_loss |-> 9800, take_profit |-> 10300, order_id |-> "ord"]))

InitialFiles == {MissingFile, CompleteFile(StaleLedger), TruncatedFile}

(***************************************************************************)
(* reconcile_positions on its own, called again and again with every       *)
(* answer of the exchange, malformed ones included.                        *)
(***************************************************************************)
ReconcileInit ==
    /\ positions \in
          {EmptyLedger, StaleLedger,
           Put(StaleLedger, "ETHUSDT",
               NewPosition("ETHUSDT",
                           CHOOSE t \in TradeInputs : t.side = "SHORT"))}
    /\ file \in InitialFiles
    /\ ret = TRUE
    /\ lastOp = Op("__init__", "-", 0)
    /\ query = NoQuery
    /\ activated = {}
    /\ entrypoint = "none"
    /\ pc = "none"
    /\ running = FALSE
    /\ restart_count = 0
    /\ reconciled = FALSE
    /\ cycle_count = 0
    /\ consecutive_failures = 0
    /\ analysis_results = <<>>
    /\ is_running = FALSE
    /\ stream_pc = "none"
    /\ klines = <<>>
    /\ current_prices = <<>>
    /\ lock = "free"
    /\ stream_msg = NoMessage

ReconcileNext ==
    \E exchange \in Queries \cup MalformedQueries, o \in SaveOutcomes :
        ReconcilePositions(exchange, o)

ReconcileSpec == ReconcileInit /\ [][ReconcileNext]_vars

\* config.CONFIDENCE_THRESHOLD, in tenths
CONFIDENCE_THRESHOLD == 8

\* What one pass of the loop of analyze_markets_safe meets: test_connection()
\* false, an exception in the pass, or the analysis analyze_symbol returns
\* (HOLD, an entry signal at full confidence, an entry signal below the
\* threshold).
AnalysisOutcomes ==
    {"conn_lost", "raised", "HOLD", "LONG", "SHORT", "LONG_low", "SHORT_at"}

AnalysisOf(symbol, outcome) ==
    CASE outcome = "HOLD"     -> [symbol |-> symbol, signal |-> "HOLD", confidence |-> 3]
      [] outcome = "LONG"     -> [symbol |-> symbol, signal |-> "LONG", confidence |-> Tenths]
      [] outcome = "SHORT"    -> [symbol |-> symbol, signal |-> "SHORT", confidence |-> Tenths]
      [] outcome = "LONG_low" -> [symbol |-> symbol, signal |-> "LONG", confidence |-> 7]
      [] outcome = "SHORT_at" -> [symbol |-> symbol, signal |-> "SHORT",
                                  confidence |-> CONFIDENCE_THRESHOLD]

TradeFor(side) == CHOOSE t \in TradeInputs : t.side = side

\* get_current_price(symbol) as the monitor loop sees it: 0 when no price is
\* available, a loss from 100.00, a move above the activation threshold.
MonitorPrices == {0, 9900, 10100}

\* config.SYMBOLS, in order
SymbolOrder == <<"BTCUSDT", "ETHUSDT">>

\* Where a kill can fall in save_positions_to_file: before open(), between
\* open() and the flush of the dump, after close().
CrashPoints == {"before_open", "after_open", "after_close"}

interrupted_save(f, pos, point) ==
    CASE point = "before_open" -> f
      [] point = "after_open"  -> TruncatedFile
      [] point = "after_close" -> CompleteFile(pos)

\* initialize_components of main.py: connection test, load, reconcile
initialize_components_main(f, conn_ok, exchange, saveOutcome) ==
    IF ~conn_ok
    THEN [ok |-> FALSE, positions |-> EmptyLedger, file |-> f,
          reconciled |-> FALSE, queried |-> FALSE]
    ELSE LET loaded == load_positions_from_file(f, EmptyLedger).positions
             r == reconcile_positions(loaded, f, exchange, saveOutcome)
         IN  [ok |-> r.ret, positions |-> r.positions, file |-> r.file,
              reconciled |-> r.ret, queried |-> TRUE]

\* initialize_components of main_robust.py: connection test, load
initialize_components_robust(f, conn_ok) ==
    IF ~conn_ok
    THEN [ok |-> FALSE, positions |-> EmptyLedger, file |-> f,
          reconciled |-> FALSE, queried |-> FALSE]
    ELSE [ok |-> TRUE,
          positions |-> load_positions_from_file(f, EmptyLedger).positions,
          file |-> f, reconciled |-> FALSE, queried |-> FALSE]

\* The loop of analyze_markets_safe.  handled: the symbols whose pass began;
\* failed: the symbols whose pass met a lost connection or an exception.
RECURSIVE AnalyzeLoop(_, _, _)
AnalyzeLoop(acc, order, outcomes) ==
    IF order = <<>>
    THEN acc
    ELSE LET symbol == Head(order)
             began == [acc EXCEPT !.handled = @ \cup {symbol}]
             after == IF outcomes[symbol] \in {"conn_lost", "raised"}
                      THEN [began EXCEPT !.failed = @ \cup {symbol}]
                      ELSE [began EXCEPT !.results =
                                Append(@, AnalysisOf(symbol, outcomes[symbol]))]
         IN  AnalyzeLoop(after, Tail(order), outcomes)

analyze_markets_safe(outcomes) ==
    AnalyzeLoop([results |-> <<>>, handled |-> {}, failed |-> {}],
                SymbolOrder, outcomes)

\* How the notification call ends: token not configured, posted, or
\* requests.post / raise_for_status raising a RequestException.
NotifyOutcomes == {"not_configured", "sent", "request_exception"}

send_telegram_message_uncaught(outcome) ==
    [raised |-> outcome = "request_exception", posted |-> outcome = "sent"]

\* notifications.send_telegram_message: the RequestException is caught
send_telegram_message(outcome) ==
    [raised |-> FALSE, posted |-> outcome = "sent"]

\* How the part of _execute_real_trade up to the order ends: the order is
\* filled; no order (balance, risk limits, validation, or the exchange
\* returned no result); an exception.
OrderOutcomes == {"filled", "rejected", "raised"}

\* _execute_real_trade: the ledger afterwards and the value returned
_execute_real_trade(st, analysis, call) ==
    IF call.order # "filled"
    THEN [positions |-> st.positions, activated |-> st.activated, ret |-> FALSE]
    ELSE LET added == add_position(st.positions, analysis.symbol,
                                   TradeFor(analysis.signal))
             sent == send_telegram_message(call.notify)
         IN  [positions |-> added.positions,
              activated |-> st.activated \ {analysis.symbol},
              ret |-> ~sent.raised]

\* The loop of execute_trades_safe over the high-confidence signals.
\* handled: the symbols whose pass began; attempted: the symbols
\* _execute_real_trade was called for; failed: the symbols in whose pass
\* an exchange call failed; success: the symbols whose trade returned True.
RECURSIVE ExecuteLoop(_, _, _)
ExecuteLoop(acc, signals, calls) ==
    IF signals = <<>>
    THEN acc
    ELSE LET analysis == Head(signals)
             symbol == analysis.symbol
             call == calls[symbol]
             began == [acc EXCEPT
                          !.handled = @ \cup {symbol},
                          !.failed = IF call.query.outcome # "ok"
                                     THEN @ \cup {symbol} ELSE @]
         IN  IF ~can_open_new_position(call.query)
             THEN began      \* break
             ELSE IF get_position(acc.positions, symbol) # {}
             THEN ExecuteLoop(began, Tail(signals), calls)
             ELSE LET t == _execute_real_trade(acc, analysis, call)
                  IN  ExecuteLoop([began EXCEPT
                                      !.positions = t.positions,
                                      !.activated = t.activated,
                                      !.attempted = @ \cup {symbol},
                                      !.failed = IF call.order = "raised"
                                                 THEN @ \cup {symbol} ELSE @,
                                      !.success = IF t.ret THEN @ \cup {symbol}
                                                  ELSE @],
                                  Tail(signals), calls)

\* the filter of execute_trades_safe letting any confidence pass
HighConfidenceSignals_any_confidence(results) ==
    SelectSeq(results, LAMBDA a : a.signal # "HOLD")

HighConfidenceSignals(results) ==
    SelectSeq(results, LAMBDA a : a.signal # "HOLD"
                                   /\ a.confidence >= CONFIDENCE_THRESHOLD)

execute_trades_safe(pos, act, results, calls) ==
    LET signals == HighConfidenceSignals(results)
    IN  ExecuteLoop([positions |-> pos, activated |-> act,
                     due |-> {signals[i].symbol : i \in DOMAIN signals},
                     handled |-> {}, attempted |-> {}, failed |-> {},
                     success |-> {}],
                    signals, calls)

\* One pass of the loop of monitor_positions_safe.  When the latch call
\* returns True the pass goes on to self.risk_manager.calculate_trailing_stop:
\* RiskManager has no such attribute, the AttributeError is caught by the
\* pass's except clause and the loop continues with the next symbol.
MonitorOne(st, symbol, current_price) ==
    IF symbol \notin DOMAIN st.positions \/ current_price = 0
    THEN [positions |-> st.positions, activated |-> st.activated,
          raised |-> FALSE]
    ELSE LET p1 == update_position_pnl(st.positions, symbol, current_price).positions
             a == should_activate_trailing_stop(p1, symbol, current_price,
                                                TRAILING_STOP_PERCENT)
         IN  [positions |-> a.positions,
              activated |-> IF a.ret THEN st.activated \cup {symbol}
                            ELSE st.activated,
              raised |-> a.ret]

\* The loop of monitor_positions_safe over the ledger's entries (every pass
\* touches its own entry only, so their order is immaterial).
RECURSIVE MonitorLoop(_, _, _)
MonitorLoop(acc, order, prices) ==
    IF order = <<>>
    THEN acc
    ELSE LET symbol == Head(order)
             m == MonitorOne(acc, symbol, prices[symbol])
         IN  IF symbol \notin acc.due
             THEN MonitorLoop(acc, Tail(order), prices)
             ELSE MonitorLoop(
                      [acc EXCEPT
                          !.positions = m.positions,
                          !.activated = m.activated,
                          !.handled = @ \cup {symbol},
                          !.priced = IF prices[symbol] # 0 THEN @ \cup {symbol}
                                     ELSE @,
                          !.failed = IF m.raised THEN @ \cup {symbol} ELSE @],
                      Tail(order), prices)

monitor_positions_safe(pos, act, prices) ==
    MonitorLoop([positions |-> pos, activated |-> act, due |-> DOMAIN pos,
                 handled |-> {}, priced |-> {}, failed |-> {}],
                SymbolOrder, prices)

shutdown_without_save(f, pos, saveOutcome) ==
    [file |-> f, ret |-> TRUE]

\* shutdown(): save_positions_to_file()
shutdown(f, pos, saveOutcome) ==
    save_positions_to_file(f, pos, saveOutcome)

\* The exchange calls of one pass of the execute loop in a cycle: the
\* position query of can_open_new_position (nothing open, the limit reached,
\* either failure), then the order and the notification.
NothingOpen == [outcome |-> "ok", book |-> [s \in Symbols |-> Flat]]

LimitReached ==
    [outcome |-> "ok",
     book |-> [s \in Symbols |-> IF s = "BTCUSDT" THEN LongInfo ELSE ShortInfo]]

NoCall == [query |-> NothingOpen, order |-> "rejected", notify |-> "sent"]

CycleCalls ==
    { [query |-> NothingOpen, order |-> o, notify |-> "sent"] :
          o \in {"filled", "rejected", "raised"} }
      \cup { [query |-> q, order |-> "filled", notify |-> "sent"] :
                 q \in {LimitReached,
                        [outcome |-> "other_exception", book |-> NoBook]} }

\* the calls of a cycle's execute phase: one per symbol that is due
CallsFor(results) ==
    LET signals == HighConfidenceSignals(results)
        due == {signals[i].symbol : i \in DOMAIN signals}
    IN  { [s \in Symbols |-> IF s \in due THEN c[s] ELSE NoCall] :
             c \in [due -> CycleCalls] }

\* The analysis outcomes the trading cycles are run with: no analysis, or an
\* entry signal at full confidence (HOLD and a signal below the threshold
\* leave the execute phase nothing to do, as no analysis does).
CycleOutcomes == {"conn_lost", "raised", "LONG", "SHORT"}

\* the prices of a cycle's monitor phase: one per symbol in the ledger
PricesFor(pos) ==
    { [s \in Symbols |-> IF s \in DOMAIN pos THEN p[s] ELSE 0] :
         p \in [DOMAIN pos -> MonitorPrices] }

CyclePcs == {"analyze", "execute", "monitor", "cycle_end"}

BotInit ==
    /\ positions = EmptyLedger
    /\ file \in InitialFiles
    /\ ret = TRUE
    /\ lastOp = Op("__init__", "-", 0)
    /\ query = NoQuery
    /\ activated = {}
    /\ entrypoint \in {"main", "main_robust"}
    /\ pc = "main"
    /\ running = FALSE
    /\ restart_count = 0
    /\ reconciled = FALSE
    /\ cycle_count = 0
    /\ consecutive_failures = 0
    /\ analysis_results = <<>>
    /\ is_running = FALSE
    /\ stream_pc = "none"
    /\ klines = <<>>
    /\ current_prices = <<>>
    /\ lock = "free"
    /\ stream_msg = NoMessage

\* main(): bot = RobustTradingBot(); bot.initialize_components().  main.py
\* starts the stream thread once the connection test has passed.
StartBot(conn_ok, exchange, saveOutcome) ==
    /\ pc = "main"
    /\ LET r == IF entrypoint = "main"
                THEN initialize_components_main(file, conn_ok, exchange, saveOutcome)
                ELSE initialize_components_robust(file, conn_ok)
       IN  /\ positions' = r.positions
           /\ file' = r.file
           /\ reconciled' = r.reconciled
           /\ ret' = r.ok
           /\ query' = IF r.queried THEN exchange ELSE NoQuery
           /\ restart_count' = IF r.ok THEN restart_count ELSE restart_count + 1
           /\ pc' = IF r.ok THEN "run"
                    ELSE IF restart_count + 1 < max_restarts THEN "main"
                    ELSE "exited"
    /\ lastOp' = Op("initialize_components", "-", 0)
    /\ activated' = {}
    /\ running' = FALSE
    /\ cycle_count' = 0
    /\ consecutive_failures' = 0
    /\ analysis_results' = <<>>
    /\ is_running' = FALSE
    /\ stream_pc' = IF entrypoint = "main" /\ conn_ok THEN "prefill" ELSE "none"
    /\ klines' = <<>>
    /\ current_prices' = <<>>
    /\ lock' = "free"
    /\ stream_msg' = NoMessage
    /\ UNCHANGED entrypoint

\* run(): self.running = True; consecutive_failures = 0
EnterRun ==
    /\ pc = "run"
    /\ pc' = "loop"
    /\ running' = TRUE
    /\ consecutive_failures' = 0
    /\ lastOp' = Op("run", "-", 0)
    /\ query' = NoQuery
    /\ UNCHANGED <<positions, file, ret, activated, entrypoint,
                   restart_count, reconciled, cycle_count, cycleVars,
                   streamVars>>

\* _signal_handler
Signal ==
    /\ pc \in {"main", "run", "loop", "shutdown"} \cup CyclePcs
    /\ running
    /\ running' = FALSE
    /\ UNCHANGED <<ledgerVars, entrypoint, pc, restart_count, reconciled,
                   cycle_count, consecutive_failures, cycleVars, streamVars>>

\* while self.running: run_cycle_safe(): cycle_count += 1 (the model runs at
\* most limit cycles)
BeginCycle(limit) ==
    /\ pc = "loop"
    /\ running
    /\ cycle_count < limit
    /\ cycle_count' = cycle_count + 1
    /\ pc' = "analyze"
    /\ lastOp' = Op("run_cycle_safe", "-", 0)
    /\ UNCHANGED <<positions, file, ret, query, activated, entrypoint, running,
                   restart_count, reconciled, consecutive_failures, cycleVars,
                   streamVars>>

AnalyzeMarkets(outcomes) ==
    /\ pc = "analyze"
    /\ LET r == analyze_markets_safe(outcomes)
       IN  /\ analysis_results' = r.results
           /\ lastOp' = Op("analyze_markets_safe", "-",
                           [due |-> Symbols, handled |-> r.handled,
                            failed |-> r.failed])
    /\ pc' = "execute"
    /\ UNCHANGED <<positions, file, ret, query, activated, entrypoint, running,
                   restart_count, reconciled, cycle_count,
                   consecutive_failures, streamVars>>

ExecuteTrades(calls) ==
    /\ pc = "execute"
    /\ LET r == execute_trades_safe(positions, activated, analysis_results, calls)
       IN  /\ positions' = r.positions
           /\ activated' = r.activated
           /\ lastOp' = Op("execute_trades_safe", "-",
                           [due |-> r.due, handled |-> r.handled,
                            failed |-> r.failed])
    /\ analysis_results' = <<>>
    /\ pc' = "monitor"
    /\ UNCHANGED <<file, ret, query, entrypoint, running, restart_count,
                   reconciled, cycle_count, consecutive_failures, streamVars>>

\* closed: the symbols whose position the exchange has closed by the time of
\* the pass (stop-loss, take-profit or trailing exit filled)
MonitorPositions(prices, closed) ==
    /\ pc = "monitor"
    /\ LET r == monitor_positions_safe(positions, activated, prices)
       IN  /\ positions' = r.positions
           /\ activated' = r.activated
           /\ lastOp' = Op("monitor_positions_safe", "-",
                           [due |-> r.due, handled |-> r.handled,
                            failed |-> r.failed,
                            closed |-> closed \cap r.priced,
                            prices |-> prices])
    /\ pc' = "cycle_end"
    /\ UNCHANGED <<file, ret, query, entrypoint, running, restart_count,
                   reconciled, cycle_count, consecutive_failures, cycleVars,
                   streamVars>>

\* the loop body of run() with a failure count that a successful cycle does
\* not reset
EndCycle_never_reset(success) ==
    /\ pc = "cycle_end"
    /\ consecutive_failures' = IF success THEN consecutive_failures
                                ELSE consecutive_failures + 1
    /\ pc' = IF consecutive_failures' >= max_failures THEN "shutdown" ELSE "loop"
    /\ ret' = success
    /\ lastOp' = Op("run_cycle_safe", "-", 1)
    /\ UNCHANGED <<positions, file, query, activated, entrypoint, running,
                   restart_count, reconciled, cycle_count, cycleVars,
                   streamVars>>

\* the rest of the loop body of run(): the failure count and the sleep
EndCycle(success) ==
    /\ pc = "cycle_end"
    /\ consecutive_failures' = IF success THEN 0 ELSE consecutive_failures + 1
    /\ pc' = IF ~success /\ consecutive_failures + 1 >= max_failures
             THEN "shutdown" ELSE "loop"
    /\ ret' = success
    /\ lastOp' = Op("run_cycle_safe", "-", 1)
    /\ UNCHANGED <<positions, file, query, activated, entrypoint, running,
                   restart_count, reconciled, cycle_count, cycleVars,
                   streamVars>>

\* while self.running is False: leave the loop; finally: shutdown()
ExitLoop ==
    /\ pc = "loop"
    /\ ~running
    /\ pc' = "shutdown"
    /\ UNCHANGED <<ledgerVars, entrypoint, running, restart_count, reconciled,
                   cycle_count, consecutive_failures, cycleVars, streamVars>>

\* asyncio.CancelledError at an await of the loop (the sleep of the analysis
\* on a lost connection, the sleep between cycles): break; finally: shutdown()
Cancel ==
    /\ pc \in {"analyze", "loop"}
    /\ pc' = "shutdown"
    /\ lastOp' = Op("CancelledError", "-", 0)
    /\ UNCHANGED <<positions, file, ret, query, activated, entrypoint, running,
                   restart_count, reconciled, cycle_count,
                   consecutive_failures, cycleVars, streamVars>>

\* an exception in the loop body outside run_cycle_safe (raised by the sleep
\* between cycles): the count goes up, and the loop is left at max_failures
LoopException ==
    /\ pc = "loop"
    /\ running
    /\ cycle_count >= 1
    /\ consecutive_failures' = consecutive_failures + 1
    /\ pc' = IF consecutive_failures + 1 >= max_failures THEN "shutdown"
             ELSE "loop"
    /\ lastOp' = Op("loop Exception", "-", consecutive_failures + 1)
    /\ UNCHANGED <<positions, file, ret, query, activated, entrypoint, running,
                   restart_count, reconciled, cycle_count, cycleVars,
                   streamVars>>

\* an exception of run() outside the loop's try: self.running = False;
\* finally: shutdown()
UnexpectedException ==
    /\ pc = "loop"
    /\ cycle_count = 0
    /\ running' = FALSE
    /\ pc' = "shutdown"
    /\ lastOp' = Op("Exception", "-", 0)
    /\ UNCHANGED <<positions, file, ret, query, activated, entrypoint,
                   restart_count, reconciled, cycle_count,
                   consecutive_failures, cycleVars, streamVars>>

\* shutdown(); main() then leaves its loop
Shutdown(saveOutcome) ==
    /\ pc = "shutdown"
    /\ LET r == shutdown(file, positions, saveOutcome)
       IN  /\ file' = r.file
           /\ ret' = r.ret
    /\ pc' = "stopped"
    /\ lastOp' = Op("shutdown", "-", 0)
    /\ UNCHANGED <<positions, query, activated, entrypoint, running,
                   restart_count, reconciled, cycle_count,
                   consecutive_failures, cycleVars, streamVars>>

\* the process is killed while shutdown() writes positions.json
CrashInSave(point) ==
    /\ pc = "shutdown"
    /\ file' = interrupted_save(file, positions, point)
    /\ pc' = "crashed"
    /\ lastOp' = Op("save_positions_to_file", "-", 0)
    /\ UNCHANGED <<positions, ret, query, activated, entrypoint, running,
                   restart_count, reconciled, cycle_count, consecutive_failures,
                   cycleVars, streamVars>>

\* The process over cycles that trade.  The phases of a cycle catch what
\* they raise, so its cycles succeed; RunSpec below has the failing cycles,
\* the cancellation and the exception of run().
BotNext ==
    \/ \E conn_ok \in BOOLEAN, exchange \in Queries, saveOutcome \in SaveOutcomes :
          StartBot(conn_ok, exchange, saveOutcome)
    \/ EnterRun
    \/ Signal
    \/ BeginCycle(MaxCycles)
    \/ \E outcomes \in [Symbols -> CycleOutcomes] : AnalyzeMarkets(outcomes)
    \/ \E calls \in CallsFor(analysis_results) : ExecuteTrades(calls)
    \/ \E prices \in PricesFor(positions) :
          \E closed \in SUBSET {s \in DOMAIN positions : prices[s] # 0} :
              MonitorPositions(prices, closed)
    \/ EndCycle(TRUE)
    \/ ExitLoop
    \/ \E saveOutcome \in SaveOutcomes : Shutdown(saveOutcome)
    \/ \E point \in CrashPoints : CrashInSave(point)

BotSpec == BotInit /\ [][BotNext]_vars

\* run() over cycles that find no entry signal, which lets the model run
\* enough cycles for the consecutive-failure limit.
RunNext ==
    \/ \E conn_ok \in BOOLEAN, exchange \in Queries, saveOutcome \in SaveOutcomes :
          StartBot(conn_ok, exchange, saveOutcome)
    \/ EnterRun
    \/ Signal
    \/ BeginCycle(MaxRunCycles)
    \/ AnalyzeMarkets([s \in Symbols |-> "HOLD"])
    \/ ExecuteTrades([s \in Symbols |-> NoCall])
    \/ \E prices \in PricesFor(positions) : MonitorPositions(prices, {})
    \/ \E success \in BOOLEAN : EndCycle(success)
    \/ ExitLoop
    \/ Cancel
    \/ LoopException
    \/ UnexpectedException
    \/ \E saveOutcome \in SaveOutcomes : Shutdown(saveOutcome)
    \/ \E point \in CrashPoints : CrashInSave(point)

RunSpec == BotInit /\ [][RunNext]_vars

(***************************************************************************)
(* KlineDataStreamer: the stream thread that start_kline_stream starts.    *)
(* A candle is a row [t, c]: open time and close.  The cache klines maps a *)
(* stream name to its rows; current_prices maps a symbol to a close.       *)
(***************************************************************************)
Intervals == {"15m", "4h"}

StreamNames == Symbols \X Intervals

Row(t, c) == [t |-> t, c |-> c]

\* self.klines[stream_name].tail(1000)
CacheLimit == 1000

\* the longest cache of a stream the model lets a message build
MaxRows == 3

TailRows(rows, n) ==
    IF Len(rows) <= n THEN rows ELSE SubSeq(rows, Len(rows) - n + 1, Len(rows))

\* What ms.recv() delivers: a message without 'stream' or 'data', an error
\* event, and kline events.
StreamMessages ==
    { [kind |-> "invalid", s |-> "-", i |-> "-", t |-> 0, c |-> 0],
      [kind |-> "error", s |-> "-", i |-> "-", t |-> 0, c |-> 0],
      [kind |-> "kline", s |-> "BTCUSDT", i |-> "15m", t |-> 2, c |-> 10100],
      [kind |-> "kline", s |-> "BTCUSDT", i |-> "15m", t |-> 2, c |-> 9900],
      [kind |-> "kline", s |-> "BTCUSDT", i |-> "15m", t |-> 3, c |-> 10100],
      [kind |-> "kline", s |-> "ETHUSDT", i |-> "4h", t |-> 2, c |-> 10000] }

\* What get_klines(symbol, interval, limit=1000) delivers to the prefill:
\* history for every stream, or an empty frame for every stream.
PrefillFeeds ==
    { [n \in StreamNames |-> <<Row(1, 10000)>>],
      [n \in StreamNames |-> <<>>] }

prefill_historical_data(kl, hist) ==
    [n \in DOMAIN kl \cup {m \in StreamNames : hist[m] # <<>>} |->
        IF hist[n] # <<>> THEN hist[n] ELSE kl[n]]

\* _process_message putting the message's row, with its timestamp, in the
\* place of the last row
_process_message_reindexing(kl, prices, msg) ==
    IF msg.kind # "kline"
    THEN [klines |-> kl, current_prices |-> prices]
    ELSE LET name == <<msg.s, msg.i>>
             row == Row(msg.t, msg.c)
             rows == IF name \notin DOMAIN kl THEN <<row>>
                     ELSE IF row.t > kl[name][Len(kl[name])].t
                     THEN TailRows(Append(kl[name], row), CacheLimit)
                     ELSE [kl[name] EXCEPT ![Len(kl[name])] = row]
         IN  [klines |-> Put(kl, name, rows),
              current_prices |-> Put(prices, msg.s, msg.c)]

\* The frames are indexed by timestamp.  A message newer than the last row
\* is concatenated; any other message, of the last row's timestamp or of an
\* older one, is assigned to .iloc[-1], which overwrites the columns of the
\* last row and leaves its index, the timestamp, as it was.
_process_message(kl, prices, msg) ==
    IF msg.kind # "kline"
    THEN [klines |-> kl, current_prices |-> prices]
    ELSE LET name == <<msg.s, msg.i>>
             row == Row(msg.t, msg.c)
             rows == IF name \notin DOMAIN kl THEN <<row>>
                     ELSE IF row.t > kl[name][Len(kl[name])].t
                     THEN TailRows(Append(kl[name], row), CacheLimit)
                     ELSE [kl[name] EXCEPT ![Len(kl[name])] = Row(@.t, row.c)]
         IN  [klines |-> Put(kl, name, rows),
              current_prices |-> Put(prices, msg.s, msg.c)]

\* start_stream: the prefill, self.is_running = True, the subscription
StartStream(hist) ==
    /\ stream_pc = "prefill"
    /\ pc \notin {"exited", "crashed"}
    /\ klines' = prefill_historical_data(klines, hist)
    /\ is_running' = TRUE
    /\ stream_pc' = "recv"
    /\ UNCHANGED <<ledgerVars, entrypoint, pc, running, restart_count,
                   reconciled, cycle_count, consecutive_failures, cycleVars,
                   current_prices, lock, stream_msg>>

\* while self.is_running: msg = await ms.recv(); _process_message(msg)
ProcessMessage(msg) ==
    /\ stream_pc = "recv"
    /\ is_running
    /\ pc \notin {"exited", "crashed"}
    /\ LET r == _process_message(klines, current_prices, msg)
       IN  /\ \A n \in DOMAIN r.klines : Len(r.klines[n]) <= MaxRows
           /\ klines' = r.klines
           /\ current_prices' = r.current_prices
    /\ UNCHANGED <<ledgerVars, entrypoint, pc, running, restart_count,
                   reconciled, cycle_count, consecutive_failures, cycleVars,
                   is_running, stream_pc, lock, stream_msg>>

\* main() returns after run(): the interpreter exits and ends the daemon
\* stream thread with it
ExitProcess ==
    /\ pc = "stopped"
    /\ pc' = "exited"
    /\ stream_pc' = IF stream_pc = "none" THEN "none" ELSE "killed"
    /\ UNCHANGED <<ledgerVars, entrypoint, running, restart_count, reconciled,
                   cycle_count, consecutive_failures, cycleVars, is_running,
                   klines, current_prices, lock, stream_msg>>

\* The process with its stream thread.  No phase of the trading cycle writes
\* the streamer's state or is_running, so the cycle is left out: the loop
\* idles until it is left.
StreamNext ==
    \/ \E conn_ok \in BOOLEAN, exchange \in Queries, saveOutcome \in SaveOutcomes :
          StartBot(conn_ok, exchange, saveOutcome)
    \/ EnterRun
    \/ Signal
    \/ ExitLoop
    \/ Cancel
    \/ UnexpectedException
    \/ \E saveOutcome \in SaveOutcomes : Shutdown(saveOutcome)
    \/ \E point \in CrashPoints : CrashInSave(point)
    \/ \E hist \in PrefillFeeds : StartStream(hist)
    \/ \E msg \in StreamMessages : ProcessMessage(msg)
    \/ ExitProcess

StreamSpec == BotInit /\ [][StreamNext]_vars

(***************************************************************************)
(* The streamer's lock.  The stream thread (start_stream) and the main     *)
(* thread (the trading cycle, through BinanceAPIClient.get_current_price)  *)
(* share klines and current_prices.  Here every statement that touches     *)
(* them is a step of its own, so that the two threads interleave between   *)
(* the write of the price and the write of the candle.                     *)
(***************************************************************************)
\* the accesses with only the writers inside `with self.lock`
LockedAccesses_writers == {"_process_message", "prefill_historical_data"}

\* the methods whose access to klines or current_prices is inside
\* `with self.lock`
LockedAccesses ==
    {"_process_message", "prefill_historical_data", "get_klines",
     "get_current_price"}

\* with self.lock: entering blocks while the lock is held
Enter(access, thread) ==
    IF access \in LockedAccesses
    THEN lock = "free" /\ lock' = thread
    ELSE UNCHANGED lock

\* leaving the with block releases the lock
Leave(access) ==
    IF access \in LockedAccesses THEN lock' = "free" ELSE UNCHANGED lock

\* KlineDataStreamer.get_klines: self.klines.get(stream_name, None)
KlineDataStreamer_get_klines(kl, name) ==
    IF name \in DOMAIN kl THEN {kl[name]} ELSE {}

\* KlineDataStreamer.get_current_price: self.current_prices.get(symbol, None)
KlineDataStreamer_get_current_price(prices, symbol) ==
    IF symbol \in DOMAIN prices THEN {prices[symbol]} ELSE {}

LockMessages ==
    StreamMessages
        \cup {[kind |-> "kline", s |-> "BTCUSDT", i |-> "4h", t |-> 2, c |-> 10200]}

\* the state once initialize_components has started the stream thread
LockInit ==
    /\ positions = EmptyLedger
    /\ file = MissingFile
    /\ ret = {}
    /\ lastOp = Op("__init__", "-", "-")
    /\ query = NoQuery
    /\ activated = {}
    /\ entrypoint = "main"
    /\ pc = "idle"
    /\ running = TRUE
    /\ restart_count = 0
    /\ reconciled = TRUE
    /\ cycle_count = 0
    /\ consecutive_failures = 0
    /\ analysis_results = <<>>
    /\ is_running = FALSE
    /\ stream_pc = "prefill"
    /\ klines = <<>>
    /\ current_prices = <<>>
    /\ lock = "free"
    /\ stream_msg = NoMessage

\* prefill_historical_data: with self.lock:
PrefillEnter ==
    /\ stream_pc = "prefill"
    /\ Enter("prefill_historical_data", "stream")
    /\ stream_pc' = "prefill_locked"
    /\ UNCHANGED <<ledgerVars, entrypoint, pc, running, restart_count,
                   reconciled, cycle_count, consecutive_failures, cycleVars,
                   is_running, klines, current_prices, stream_msg>>

\* self.klines[stream_name] = historical_klines, and after the prefill
\* self.is_running = True
PrefillWrite(hist) ==
    /\ stream_pc = "prefill_locked"
    /\ klines' = prefill_historical_data(klines, hist)
    /\ Leave("prefill_historical_data")
    /\ is_running' = TRUE
    /\ stream_pc' = "recv"
    /\ UNCHANGED <<ledgerVars, entrypoint, pc, running, restart_count,
                   reconciled, cycle_count, consecutive_failures, cycleVars,
                   current_prices, stream_msg>>

\* msg = await ms.recv(); a message that is no kline event is dropped
Recv(m) ==
    /\ stream_pc = "recv"
    /\ is_running
    /\ stream_msg' = IF m.kind = "kline" THEN m ELSE NoMessage
    /\ stream_pc' = IF m.kind = "kline" THEN "process" ELSE "recv"
    /\ UNCHANGED <<ledgerVars, entrypoint, pc, running, restart_count,
                   reconciled, cycle_count, consecutive_failures, cycleVars,
                   is_running, klines, current_prices, lock>>

\* _process_message: with self.lock:
ProcessEnter ==
    /\ stream_pc = "process"
    /\ Enter("_process_message", "stream")
    /\ stream_pc' = "locked"
    /\ UNCHANGED <<ledgerVars, entrypoint, pc, running, restart_count,
                   reconciled, cycle_count, consecutive_failures, cycleVars,
                   is_running, klines, current_prices, stream_msg>>

\* self.current_prices[symbol] = float(kline_data['c'])
WritePrice ==
    /\ stream_pc = "locked"
    /\ current_prices' =
          _process_message(klines, current_prices, stream_msg).current_prices
    /\ stream_pc' = "price_written"
    /\ UNCHANGED <<ledgerVars, entrypoint, pc, running, restart_count,
                   reconciled, cycle_count, consecutive_failures, cycleVars,
                   is_running, klines, lock, stream_msg>>

\* the assignment to self.klines[stream_name]; the with block ends
WriteCandle ==
    /\ stream_pc = "price_written"
    /\ klines' = _process_message(klines, current_prices, stream_msg).klines
    /\ Leave("_process_message")
    /\ stream_pc' = "recv"
    /\ stream_msg' = NoMessage
    /\ UNCHANGED <<ledgerVars, entrypoint, pc, running, restart_count,
                   reconciled, cycle_count, consecutive_failures, cycleVars,
                   is_running, current_prices>>

\* the main thread calls get_current_price(symbol) or get_klines(symbol,
\* interval): with self.lock:
ReadEnter(access, symbol, interval) ==
    /\ pc = "idle"
    /\ lastOp' = Op(access, symbol, interval)
    /\ Enter(access, "main")
    /\ pc' = "reading"
    /\ UNCHANGED <<positions, file, ret, query, activated, entrypoint, running,
                   restart_count, reconciled, cycle_count, consecutive_failures,
                   cycleVars, is_running, stream_pc, klines, current_prices,
                   stream_msg>>

\* return self.current_prices.get(...) / return self.klines.get(...)
Read ==
    /\ pc = "reading"
    /\ ret' = IF lastOp.op = "get_current_price"
              THEN KlineDataStreamer_get_current_price(current_prices,
                                                       lastOp.symbol)
              ELSE KlineDataStreamer_get_klines(klines,
                                                <<lastOp.symbol, lastOp.arg>>)
    /\ pc' = "read"
    /\ UNCHANGED <<positions, file, lastOp, query, activated, entrypoint,
                   running, restart_count, reconciled, cycle_count,
                   consecutive_failures, cycleVars, streamVars>>

\* the with block of the reader ends
ReadLeave ==
    /\ pc = "read"
    /\ Leave(lastOp.op)
    /\ pc' = "idle"
    /\ UNCHANGED <<ledgerVars, entrypoint, running, restart_count, reconciled,
                   cycle_count, consecutive_failures, cycleVars, is_running,
                   stream_pc, klines, current_prices, stream_msg>>

\* the stream thread
StreamTask ==
    \/ PrefillEnter
    \/ \E hist \in PrefillFeeds : PrefillWrite(hist)
    \/ \E m \in LockMessages : Recv(m)
    \/ ProcessEnter
    \/ WritePrice
    \/ WriteCandle

\* the main thread
MainTask ==
    \/ \E s \in Symbols : ReadEnter("get_current_price", s, "-")
    \/ \E s \in Symbols, i \in Intervals : ReadEnter("get_klines", s, i)
    \/ Read
    \/ ReadLeave

LockNext == StreamTask \/ MainTask

LockSpec == LockInit /\ [][LockNext]_vars

(***************************************************************************)
(* execute_trades_safe on its own: any ledger, any list of analyses, any   *)
(* outcome of the exchange and notification calls.                         *)
(***************************************************************************)
TradeLedgers == {EmptyLedger, StaleLedger}

PositionQueries ==
    {NothingOpen, LimitReached}
        \cup {[outcome |-> o, book |-> NoBook] :
                 o \in {"api_exception", "other_exception"}}

AllCalls == [query : PositionQueries, order : OrderOutcomes, notify : NotifyOutcomes]

TradeCalls ==
    { Op("execute_trades_safe", "-",
         [ledger |-> l, results |-> analyze_markets_safe(o).results, calls |-> c]) :
          l \in TradeLedgers, o \in [Symbols -> AnalysisOutcomes],
          c \in [Symbols -> AllCalls] }

TradeInit ==
    /\ lastOp \in TradeCalls
    /\ positions = lastOp.arg.ledger
    /\ analysis_results = lastOp.arg.results
    /\ file = MissingFile
    /\ ret = FALSE
    /\ query = NoQuery
    /\ activated = {}
    /\ entrypoint = "none"
    /\ pc = "call"
    /\ running = FALSE
    /\ restart_count = 0
    /\ reconciled = FALSE
    /\ cycle_count = 0
    /\ consecutive_failures = 0
    /\ is_running = FALSE
    /\ stream_pc = "none"
    /\ klines = <<>>
    /\ current_prices = <<>>
    /\ lock = "free"
    /\ stream_msg = NoMessage

ExecuteTradesSafe ==
    /\ pc = "call"
    /\ lastOp.op = "execute_trades_safe"
    /\ LET r == execute_trades_safe(positions, activated, analysis_results,
                                    lastOp.arg.calls)
       IN  /\ positions' = r.positions
           /\ activated' = r.activated
           /\ ret' = [due |-> r.due, handled |-> r.handled,
                      attempted |-> r.attempted, failed |-> r.failed,
                      success |-> r.success]
    /\ analysis_results' = <<>>
    /\ pc' = "returned"
    /\ UNCHANGED <<file, lastOp, query, entrypoint, running, restart_count,
                   reconciled, cycle_count, consecutive_failures, streamVars>>

TradeSpec == TradeInit /\ [][ExecuteTradesSafe]_vars

(***************************************************************************)
(* The ledger under a moving price: positions are opened and closed and    *)
(* update_position_pnl is called with a price that rises and falls.        *)
(***************************************************************************)
\* Prices passed to update_position_pnl: a loss from 100.00, a gain of 0.5%
\* and a gain of 1% for a LONG, mirrored for a SHORT.
MovingPrices == {9900, 10050, 10100}

PnlNext ==
    \/ \E s \in Symbols, t \in TradeInputs : AddPosition(s, t)
    \/ \E s \in Symbols : RemovePosition(s)
    \/ \E s \in Symbols, price \in MovingPrices : UpdatePositionPnl(s, price)

PnlSpec == Init /\ [][PnlNext]_vars

(***************************************************************************)
(* The risk manager (src/risk_manager.py).  Its functions compute with     *)
(* floats; the model computes with exact rationals [n, d] in lowest terms  *)
(* with d > 0, so that a quotient such as risk / distance is what the      *)
(* real-number formula gives.  A price of 100.00 is Cents(10000).          *)
(***************************************************************************)
\* config.MAX_RISK_PER_TRADE = 0.02, in basis points
MAX_RISK_PER_TRADE == 200
\* config.RISK_REWARD_RATIO = 1.5, in basis points
RISK_REWARD_RATIO == 15000
\* config.MAX_POSITION_SIZE_PERCENT = 0.1, in basis points
MAX_POSITION_SIZE_PERCENT == 1000

RECURSIVE GCD(_, _)
GCD(a, b) == IF b = 0 THEN a ELSE GCD(b, a % b)

\* the number n / d (d # 0) in lowest terms
Rat(n, d) ==
    LET g == GCD(Abs(n), Abs(d))
        s == IF d < 0 THEN 0 - 1 ELSE 1
    IN  [n |-> (s * n) \div g, d |-> (s * d) \div g]

Whole(x) == Rat(x, 1)

Cents(c) == Rat(c, 100)

Fraction(bp) == Rat(bp, BasisPoints)

Zero == Whole(0)

RAdd(a, b) == Rat(a.n * b.d + b.n * a.d, a.d * b.d)

RSub(a, b) == Rat(a.n * b.d - b.n * a.d, a.d * b.d)

RMul(a, b) == Rat(a.n * b.n, a.d * b.d)

\* a / b for b # 0
RDiv(a, b) == Rat(a.n * b.d, a.d * b.n)

RLt(a, b) == a.n * b.d < b.n * a.d

RLe(a, b) == a.n * b.d <= b.n * a.d

RAbs(a) == [n |-> Abs(a.n), d |-> a.d]

\* min(a, b) of Python: b when b < a, a otherwise
RMin(a, b) == IF RLt(b, a) THEN b ELSE a

\* RiskManager.calculate_position_size with the position cap left out
calculate_position_size_uncapped(account_balance, entry_price, stop_loss_price) ==
    LET distance_to_sl == RAbs(RSub(entry_price, stop_loss_price))
    IN  IF distance_to_sl = Zero
        THEN Zero
        ELSE RDiv(RMul(account_balance, Fraction(MAX_RISK_PER_TRADE)),
                  distance_to_sl)

calculate_position_size(account_balance, entry_price, stop_loss_price) ==
    LET distance_to_sl == RAbs(RSub(entry_price, stop_loss_price))
        max_risk_usdt == RMul(account_balance, Fraction(MAX_RISK_PER_TRADE))
        max_position_size_usdt ==
            RMul(account_balance, Fraction(MAX_POSITION_SIZE_PERCENT))
    IN  IF distance_to_sl = Zero
        THEN Zero
        ELSE RMin(RDiv(max_risk_usdt, distance_to_sl), max_position_size_usdt)

\* RiskManager.calculate_take_profit with the target on the LONG side for
\* either side
calculate_take_profit_unsided(entry_price, stop_loss_price, side) ==
    RAdd(entry_price,
         RMul(RAbs(RSub(entry_price, stop_loss_price)),
              Fraction(RISK_REWARD_RATIO)))

calculate_take_profit(entry_price, stop_loss_price, side) ==
    LET distance_to_sl == RAbs(RSub(entry_price, stop_loss_price))
        distance_to_tp == RMul(distance_to_sl, Fraction(RISK_REWARD_RATIO))
    IN  IF side = "LONG"
        THEN RAdd(entry_price, distance_to_tp)
        ELSE RSub(entry_price, distance_to_tp)

\* reward / risk of a bracket, 0 when the risk is 0
RewardRisk(entry_price, stop_loss, take_profit) ==
    LET risk == RAbs(RSub(entry_price, stop_loss))
        reward == RAbs(RSub(take_profit, entry_price))
    IN  IF RLt(Zero, risk) THEN RDiv(reward, risk) ELSE Zero

\* a realized reward/risk below 90% of the configured ratio
Suboptimal(entry_price, stop_loss, take_profit) ==
    RLt(RewardRisk(entry_price, stop_loss, take_profit),
        RMul(Fraction(RISK_REWARD_RATIO), Rat(9, 10)))

\* the side-dependent ordering checks: the LONG branch, and the else branch
\* every other side takes
OrderingOk(side, entry_price, stop_loss, take_profit) ==
    IF side = "LONG"
    THEN ~RLe(entry_price, stop_loss) /\ ~RLe(take_profit, entry_price)
    ELSE ~RLe(stop_loss, entry_price) /\ ~RLe(entry_price, take_profit)

\* RiskManager.validate_trade_parameters rejecting a suboptimal reward/risk
validate_trade_parameters_strict(side, entry_price, stop_loss, take_profit, position_size_usdt) ==
    LET ok ==
          /\ \A price \in {entry_price, stop_loss, take_profit,
                           position_size_usdt} : ~RLe(price, Zero)
          /\ OrderingOk(side, entry_price, stop_loss, take_profit)
        warn == ok /\ Suboptimal(entry_price, stop_loss, take_profit)
    IN  [valid |-> ok /\ ~warn, warned |-> warn]

\* valid is what the function returns; warned tells whether it logged the
\* warning about the reward/risk relation
validate_trade_parameters(side, entry_price, stop_loss, take_profit, position_size_usdt) ==
    IF \E price \in {entry_price, stop_loss, take_profit, position_size_usdt} :
           RLe(price, Zero)
    THEN [valid |-> FALSE, warned |-> FALSE]
    ELSE IF ~OrderingOk(side, entry_price, stop_loss, take_profit)
    THEN [valid |-> FALSE, warned |-> FALSE]
    ELSE [valid |-> TRUE,
          warned |-> Suboptimal(entry_price, stop_loss, take_profit)]

\* position_size_usdt > account_balance * max_position_size_percent
ExceedsLimit(position_size_usdt, account_balance) ==
    RLt(RMul(account_balance, Fraction(MAX_POSITION_SIZE_PERCENT)),
        position_size_usdt)

\* position_size_usdt < 2
BelowMinimum(position_size_usdt) == RLt(position_size_usdt, Whole(2))

check_risk_limits(position_size_usdt, account_balance) ==
    IF ExceedsLimit(position_size_usdt, account_balance) THEN FALSE
    ELSE IF BelowMinimum(position_size_usdt) THEN FALSE
    ELSE TRUE

\* What RiskManager.update_trailing_stop returns: None or the new stop.
NoProposal == [none |-> TRUE, value |-> Zero]

Proposal(v) == [none |-> FALSE, value |-> v]

\* (current_price - entry_price) / entry_price for a long, mirrored otherwise
FavorableMove(is_long, entry_price, current_price) ==
    IF is_long
    THEN RDiv(RSub(current_price, entry_price), entry_price)
    ELSE RDiv(RSub(entry_price, current_price), entry_price)

\* the stop the function proposes at current_price
TrailedStop(is_long, current_price) ==
    IF is_long
    THEN RMul(current_price, RSub(Whole(1), Fraction(TRAILING_STOP_PERCENT)))
    ELSE RMul(current_price, RAdd(Whole(1), Fraction(TRAILING_STOP_PERCENT)))

\* RiskManager.update_trailing_stop proposing only above the threshold
RiskManager_update_trailing_stop_above(position, current_price) ==
    IF {"symbol", "positionAmt", "entryPrice"} \subseteq DOMAIN position
          /\ position.entryPrice # 0
          /\ RLt(Fraction(TRAILING_STOP_PERCENT),
                 FavorableMove(position.positionAmt > 0,
                               Cents(position.entryPrice), current_price))
    THEN Proposal(TrailedStop(position.positionAmt > 0, current_price))
    ELSE NoProposal

\* RiskManager.update_trailing_stop(position, current_price); position is an
\* entry of futures_position_information() (keys symbol, positionAmt,
\* entryPrice).  A record without these keys raises KeyError and an
\* entryPrice of 0 raises ZeroDivisionError; both are caught and give None.
RiskManager_update_trailing_stop(position, current_price) ==
    IF ~({"symbol", "positionAmt", "entryPrice"} \subseteq DOMAIN position)
    THEN NoProposal
    ELSE IF position.entryPrice = 0
    THEN NoProposal
    ELSE LET is_long == position.positionAmt > 0
             profit_percent ==
                 FavorableMove(is_long, Cents(position.entryPrice), current_price)
         IN  IF RLe(Fraction(TRAILING_STOP_PERCENT), profit_percent)
             THEN Proposal(TrailedStop(is_long, current_price))
             ELSE NoProposal

(***************************************************************************)
(* The risk manager's functions as a caller sees them: a call is drawn in  *)
(* the initial state and the function it names is applied to it.           *)
(***************************************************************************)
\* account balances, in USDT
Balances == {Whole(0), Whole(150), Whole(1000)}

\* entry, stop and target prices: around 100.00, with 0 and a negative value
RiskPrices ==
    {Cents(c) : c \in {0 - 100, 0, 9700, 9800, 9990, 10000, 10200, 10300}}

\* position sizes, in USDT
Sizes == {Whole(0), Whole(10)}

\* prices the trailing stop is asked about: a loss from 100.00, just below
\* the 0.75% threshold, exactly at it and above it, for a long and a short
TrailPrices ==
    {Cents(c) : c \in {9900, 9925, 9926, 10074, 10075, 10100, 12400}}

\* one entry of futures_position_information(), with its symbol
WithSymbol(symbol, info) ==
    [symbol |-> symbol, positionAmt |-> info.positionAmt,
     entryPrice |-> info.entryPrice]

\* what update_trailing_stop may be handed: exchange entries, and a record
\* of the ledger
TrailPositions ==
    {WithSymbol("BTCUSDT", i) :
        i \in {LongInfo, Flat, [positionAmt |-> 0 - 1, entryPrice |-> 10000],
               ShortInfo}}
        \cup {StaleLedger["BTCUSDT"]}

RiskCalls ==
    {Op("calculate_position_size", "-",
        [account_balance |-> b, entry_price |-> e, stop_loss_price |-> s]) :
        b \in Balances, e \in RiskPrices, s \in RiskPrices}
      \cup {Op("calculate_take_profit", "-",
               [entry_price |-> e, stop_loss_price |-> s, side |-> d]) :
               e \in RiskPrices, s \in RiskPrices, d \in {"LONG", "SHORT"}}
      \cup {Op("validate_trade_parameters", "-",
               [side |-> d, entry_price |-> e, stop_loss |-> s,
                take_profit |-> t, position_size_usdt |-> z]) :
               d \in {"LONG", "SHORT"}, e \in RiskPrices, s \in RiskPrices,
               t \in RiskPrices, z \in Sizes}
      \cup {Op("RiskManager.update_trailing_stop", "-",
               [position |-> p, current_price |-> c]) :
               p \in TrailPositions, c \in TrailPrices}
      \cup {Op("check_risk_limits", "-",
               [account_balance |-> b, entry_price |-> e, stop_loss_price |-> s]) :
               b \in Balances \cup {Whole(15)}, e \in RiskPrices,
               s \in RiskPrices}

RiskInit ==
    /\ lastOp \in RiskCalls
    /\ positions = StaleLedger
    /\ file = MissingFile
    /\ ret = FALSE
    /\ query = NoQuery
    /\ activated = {}
    /\ entrypoint = "none"
    /\ pc = "call"
    /\ running = FALSE
    /\ restart_count = 0
    /\ reconciled = FALSE
    /\ cycle_count = 0
    /\ consecutive_failures = 0
    /\ analysis_results = <<>>
    /\ is_running = FALSE
    /\ stream_pc = "none"
    /\ klines = <<>>
    /\ current_prices = <<>>
    /\ lock = "free"
    /\ stream_msg = NoMessage

CalculatePositionSize ==
    /\ pc = "call"
    /\ lastOp.op = "calculate_position_size"
    /\ ret' = calculate_position_size(lastOp.arg.account_balance,
                                      lastOp.arg.entry_price,
                                      lastOp.arg.stop_loss_price)
    /\ pc' = "returned"
    /\ UNCHANGED <<positions, file, lastOp, query, activated, entrypoint,
                   running, restart_count, reconciled, cycle_count,
                   consecutive_failures, cycleVars, streamVars>>

CalculateTakeProfit ==
    /\ pc = "call"
    /\ lastOp.op = "calculate_take_profit"
    /\ ret' = calculate_take_profit(lastOp.arg.entry_price,
                                    lastOp.arg.stop_loss_price, lastOp.arg.side)
    /\ pc' = "returned"
    /\ UNCHANGED <<positions, file, lastOp, query, activated, entrypoint,
                   running, restart_count, reconciled, cycle_count,
                   consecutive_failures, cycleVars, streamVars>>

ValidateTradeParameters ==
    /\ pc = "call"
    /\ lastOp.op = "validate_trade_parameters"
    /\ ret' = validate_trade_parameters(lastOp.arg.side, lastOp.arg.entry_price,
                                        lastOp.arg.stop_loss,
                                        lastOp.arg.take_profit,
                                        lastOp.arg.position_size_usdt)
    /\ pc' = "returned"
    /\ UNCHANGED <<positions, file, lastOp, query, activated, entrypoint,
                   running, restart_count, reconciled, cycle_count,
                   consecutive_failures, cycleVars, streamVars>>

\* the function reads its arguments and writes nothing
RiskUpdateTrailingStop ==
    /\ pc = "call"
    /\ lastOp.op = "RiskManager.update_trailing_stop"
    /\ ret' = RiskManager_update_trailing_stop(lastOp.arg.position,
                                               lastOp.arg.current_price)
    /\ pc' = "returned"
    /\ UNCHANGED <<positions, file, lastOp, query, activated, entrypoint,
                   running, restart_count, reconciled, cycle_count,
                   consecutive_failures, cycleVars, streamVars>>

\* position_size_usdt = calculate_position_size(account_balance, ...), then
\* check_risk_limits(position_size_usdt, account_balance), as
\* _execute_real_trade calls them
CheckRiskLimits ==
    /\ pc = "call"
    /\ lastOp.op = "check_risk_limits"
    /\ LET position_size_usdt ==
               calculate_position_size(lastOp.arg.account_balance,
                                       lastOp.arg.entry_price,
                                       lastOp.arg.stop_loss_price)
       IN  ret' = [size |-> position_size_usdt,
                   accepted |-> check_risk_limits(position_size_usdt,
                                                  lastOp.arg.account_balance)]
    /\ pc' = "returned"
    /\ UNCHANGED <<positions, file, lastOp, query, activated, entrypoint,
                   running, restart_count, reconciled, cycle_count,
                   consecutive_failures, cycleVars, streamVars>>

RiskNext ==
    \/ CheckRiskLimits
    \/ CalculatePositionSize
    \/ CalculateTakeProfit
    \/ ValidateTradeParameters
    \/ RiskUpdateTrailingStop

RiskSpec == RiskInit /\ [][RiskNext]_vars

(***************************************************************************)
(* One trade attempt in detail: _execute_real_trade with the risk          *)
(* manager's computations and the three orders of                          *)
(* place_futures_order_with_sl_tp.  Prices and sizes are exact rationals.  *)
(***************************************************************************)
\* What get_klines(symbol, '15m', 5) gives calculate_stop_loss: fewer than two
\* rows, an exception, or the previous candle.
NoCandle == [rows |-> "short", low |-> Zero, high |-> Zero]

FailedCandle == [rows |-> "raised", low |-> Zero, high |-> Zero]

PreviousCandle(low, high) == [rows |-> "ok", low |-> low, high |-> high]

\* RiskManager.calculate_stop_loss: the previous candle's low (LONG) or high
\* (SHORT); 2% from the entry when there is no previous candle
calculate_stop_loss(klines_15m, side, entry_price) ==
    IF klines_15m.rows # "ok"
    THEN IF side = "LONG" THEN RMul(entry_price, Rat(98, 100))
         ELSE RMul(entry_price, Rat(102, 100))
    ELSE IF side = "LONG" THEN klines_15m.low ELSE klines_15m.high

RECURSIVE Pow10(_)
Pow10(k) == IF k = 0 THEN 1 ELSE 10 * Pow10(k - 1)

\* f"{x:.{precision}f}" read back as a number: x >= 0 rounded to the nearest
\* multiple of 10^-precision (no input of the model lies on a tie)
Rounded(x, precision) ==
    Rat((2 * x.n * Pow10(precision) + x.d) \div (2 * x.d), Pow10(precision))

\* the symbol is not in symbol_info: str(quantity)
NoPrecision == 0 - 1

\* _format_quantity / _format_price
Formatted(x, precision) ==
    IF precision = NoPrecision THEN x ELSE Rounded(x, precision)

\* one order as futures_create_order receives it, and whether it was accepted
Order(type, side, quantity, stopPrice, accepted) ==
    [type |-> type, side |-> side, quantity |-> quantity,
     stopPrice |-> stopPrice, reduceOnly |-> type # "MARKET",
     accepted |-> accepted]

\* How futures_create_order ends: with the order, with a BinanceOrderException,
\* with a BinanceAPIException, or with another exception (a network error).
CreateOutcomes == {"ok", "order_exception", "api_exception", "other_exception"}

\* place_futures_order_with_sl_tp going on to the stop-loss and take-profit
\* orders and returning a result whatever became of the market order
place_futures_order_with_sl_tp_unconfirmed(side, quantity, stop_loss, take_profit, ex) ==
    LET exit_side == IF side = "BUY" THEN "SELL" ELSE "BUY"
        q == Formatted(quantity, ex.quantityPrecision)
    IN  [result |-> "order",
         orders |-> <<Order("MARKET", side, q, Zero, ex.market = "ok"),
                      Order("STOP_MARKET", exit_side, q,
                            Formatted(stop_loss, ex.pricePrecision),
                            ex.sl = "ok"),
                      Order("TAKE_PROFIT_MARKET", exit_side, q,
                            Formatted(take_profit, ex.pricePrecision),
                            ex.tp = "ok")>>]

\* BinanceAPIClient.place_futures_order_with_sl_tp.  place_futures_order
\* catches BinanceOrderException only and returns {}; the stop-loss and the
\* take-profit order catch BinanceAPIException only and go on.
place_futures_order_with_sl_tp(side, quantity, stop_loss, take_profit, ex) ==
    LET exit_side == IF side = "BUY" THEN "SELL" ELSE "BUY"
        q == Formatted(quantity, ex.quantityPrecision)
        market == Order("MARKET", side, q, Zero, ex.market = "ok")
        sl == Order("STOP_MARKET", exit_side, q,
                    Formatted(stop_loss, ex.pricePrecision), ex.sl = "ok")
        tp == Order("TAKE_PROFIT_MARKET", exit_side, q,
                    Formatted(take_profit, ex.pricePrecision), ex.tp = "ok")
    IN  IF ex.market = "order_exception"
        THEN [result |-> "none", orders |-> <<market>>]
        ELSE IF ex.market # "ok"
        THEN [result |-> "raised", orders |-> <<market>>]
        ELSE IF ex.sl \notin {"ok", "api_exception"}
        THEN [result |-> "raised", orders |-> <<market, sl>>]
        ELSE IF ex.tp \notin {"ok", "api_exception"}
        THEN [result |-> "raised", orders |-> <<market, sl, tp>>]
        ELSE [result |-> "order", orders |-> <<market, sl, tp>>]

\* what a trade attempt that ends before the order leaves behind
NoTrade(pos) == [positions |-> pos, orders |-> <<>>, ret |-> FALSE]

\* RobustTradingBot._execute_real_trade(analysis): the ledger afterwards, the
\* orders sent to the exchange and the value returned.  ex tells what the
\* exchange answers during the attempt.
_execute_real_trade_attempt(pos, analysis, ex) ==
    LET symbol == analysis.symbol
        signal == analysis.signal
        entry_price == analysis.current_price
        account_balance == IF ex.account = "api_exception" THEN Zero
                           ELSE ex.balance
        stop_loss == calculate_stop_loss(ex.klines_15m, signal, entry_price)
        take_profit == calculate_take_profit(entry_price, stop_loss, signal)
        position_size_usdt ==
            calculate_position_size(account_balance, entry_price, stop_loss)
        quantity == RDiv(position_size_usdt, entry_price)
        placed == place_futures_order_with_sl_tp(
                      IF signal = "LONG" THEN "BUY" ELSE "SELL",
                      quantity, stop_loss, take_profit, ex)
    IN  IF ex.account = "other_exception" THEN NoTrade(pos)
        ELSE IF RLe(account_balance, Zero) THEN NoTrade(pos)
        ELSE IF ~check_risk_limits(position_size_usdt, account_balance)
        THEN NoTrade(pos)
        ELSE IF ~validate_trade_parameters(signal, entry_price, stop_loss,
                                           take_profit, position_size_usdt).valid
        THEN NoTrade(pos)
        ELSE IF placed.result # "order"
        THEN [positions |-> pos, orders |-> placed.orders, ret |-> FALSE]
        ELSE [positions |->
                  add_position(pos, symbol,
                               [side |-> signal, entry_price |-> entry_price,
                                quantity |-> quantity, stop_loss |-> stop_loss,
                                take_profit |-> take_profit,
                                order_id |-> "ord"]).positions,
              orders |-> placed.orders,
              ret |-> ~send_telegram_message(ex.notify).raised]

\* The analyses a trade attempt is made for: an entry signal at 100.00, or
\* at a price of 0 (no price known).
AttemptAnalyses ==
    {[symbol |-> "ETHUSDT", signal |-> d, current_price |-> p] :
        d \in {"LONG", "SHORT"}, p \in {Zero, Cents(10000)}}

\* totalWalletBalance: nothing, 15 (a cap of 1.5), 150.6 and 1000
AttemptBalances == {Zero, Whole(15), Rat(1506, 10), Whole(1000)}

\* the 15m candles calculate_stop_loss sees: none, a failed request, a
\* previous candle around the entry price (near and far), and one wholly
\* above it
AttemptCandles ==
    {NoCandle, FailedCandle,
     PreviousCandle(Cents(9990), Cents(10010)),
     PreviousCandle(Cents(9800), Cents(10200)),
     PreviousCandle(Cents(10050), Cents(10100))}

\* quantityPrecision and pricePrecision of the symbol, when symbol_info has it
AttemptPrecisions == {NoPrecision, 3}

\* all that the exchange and the notification service answer in one attempt
AttemptExchanges ==
    [account : {"ok", "api_exception", "other_exception"},
     balance : AttemptBalances,
     klines_15m : AttemptCandles,
     quantityPrecision : AttemptPrecisions,
     pricePrecision : {2},
     market : CreateOutcomes,
     sl : {"ok", "api_exception", "other_exception"},
     tp : {"ok", "api_exception"},
     notify : {"sent", "request_exception"}]

AttemptCalls ==
    {Op("_execute_real_trade", a.symbol,
        [ledger |-> l, analysis |-> a, ex |-> ex]) :
        l \in {EmptyLedger, StaleLedger}, a \in AttemptAnalyses,
        ex \in AttemptExchanges}

AttemptInit ==
    /\ lastOp \in AttemptCalls
    /\ positions = lastOp.arg.ledger
    /\ file = MissingFile
    /\ ret = FALSE
    /\ query = NoQuery
    /\ activated = {}
    /\ entrypoint = "none"
    /\ pc = "call"
    /\ running = FALSE
    /\ restart_count = 0
    /\ reconciled = FALSE
    /\ cycle_count = 0
    /\ consecutive_failures = 0
    /\ analysis_results = <<>>
    /\ is_running = FALSE
    /\ stream_pc = "none"
    /\ klines = <<>>
    /\ current_prices = <<>>
    /\ lock = "free"
    /\ stream_msg = NoMessage

\* ret is the value returned together with the orders the attempt sent
ExecuteRealTrade ==
    /\ pc = "call"
    /\ lastOp.op = "_execute_real_trade"
    /\ LET r == _execute_real_trade_attempt(positions, lastOp.arg.analysis,
                                            lastOp.arg.ex)
       IN  /\ positions' = r.positions
           /\ ret' = [ret |-> r.ret, orders |-> r.orders]
    /\ pc' = "returned"
    /\ UNCHANGED <<file, lastOp, query, activated, entrypoint, running,
                   restart_count, reconciled, cycle_count,
                   consecutive_failures, cycleVars, streamVars>>

AttemptSpec == AttemptInit /\ [][ExecuteRealTrade]_vars

(***************************************************************************)
(* A position from its entry through the monitoring passes: one trade      *)
(* attempt, then monitor_positions_safe again and again.  ret keeps the    *)
(* orders of the attempt: the monitoring pass never reaches a call that    *)
(* replaces an order on the exchange (see MonitorOne), so the accepted     *)
(* STOP_MARKET order of the attempt is the stop resting on the exchange.   *)
(***************************************************************************)
\* a rational price as an integer number of 0.01
ToCents(x) == (x.n * 100) \div x.d

\* the ledger of the trade attempt in the units the ledger operations
\* compute with: prices in 0.01, whole quantities
LedgerInCents(pos) ==
    [s \in DOMAIN pos |->
        [pos[s] EXCEPT !.entry_price = ToCents(@),
                       !.quantity = @.n \div @.d,
                       !.stop_loss = ToCents(@),
                       !.take_profit = ToCents(@),
                       !.current_stop_loss = ToCents(@)]]

\* an entry at 100.00 with the previous candle at 98.00 / 102.00 and a
\* balance that makes the quantity 1 or 2
ProtectCalls ==
    {Op("_execute_real_trade", s,
        [ledger |-> EmptyLedger,
         analysis |-> [symbol |-> s, signal |-> d,
                       current_price |-> Cents(10000)],
         ex |-> [account |-> "ok", balance |-> b,
                 klines_15m |-> PreviousCandle(Cents(9800), Cents(10200)),
                 quantityPrecision |-> 3, pricePrecision |-> 2,
                 market |-> m, sl |-> sl, tp |-> tp, notify |-> "sent"]]) :
        s \in Symbols, d \in {"LONG", "SHORT"},
        b \in {Whole(10000), Whole(20000)}, m \in CreateOutcomes,
        sl \in {"ok", "api_exception", "other_exception"},
        tp \in {"ok", "api_exception"}}

ProtectInit ==
    /\ lastOp \in ProtectCalls
    /\ positions = EmptyLedger
    /\ file = MissingFile
    /\ ret = FALSE
    /\ query = NoQuery
    /\ activated = {}
    /\ entrypoint = "none"
    /\ pc = "execute"
    /\ running = TRUE
    /\ restart_count = 0
    /\ reconciled = FALSE
    /\ cycle_count = 0
    /\ consecutive_failures = 0
    /\ analysis_results = <<>>
    /\ is_running = FALSE
    /\ stream_pc = "none"
    /\ klines = <<>>
    /\ current_prices = <<>>
    /\ lock = "free"
    /\ stream_msg = NoMessage

\* the trade attempt of the first cycle
EnterTrade ==
    /\ pc = "execute"
    /\ lastOp.op = "_execute_real_trade"
    /\ LET r == _execute_real_trade_attempt(positions, lastOp.arg.analysis,
                                            lastOp.arg.ex)
       IN  /\ positions' = LedgerInCents(r.positions)
           /\ ret' = [ret |-> r.ret, orders |-> r.orders]
    /\ pc' = "monitor"
    /\ UNCHANGED <<file, lastOp, query, activated, entrypoint, running,
                   restart_count, reconciled, cycle_count,
                   consecutive_failures, cycleVars, streamVars>>

\* the monitoring pass of a cycle
MonitorTick(prices) ==
    /\ pc = "monitor"
    /\ LET r == monitor_positions_safe(positions, activated, prices)
       IN  /\ positions' = r.positions
           /\ activated' = r.activated
           /\ lastOp' = Op("monitor_positions_safe", "-",
                           [due |-> r.due, handled |-> r.handled,
                            failed |-> r.failed, closed |-> {},
                            prices |-> prices])
    /\ UNCHANGED <<file, ret, query, entrypoint, pc, running, restart_count,
                   reconciled, cycle_count, consecutive_failures, cycleVars,
                   streamVars>>

ProtectNext ==
    \/ EnterTrade
    \/ \E prices \in PricesFor(positions) : MonitorTick(prices)

ProtectSpec == ProtectInit /\ [][ProtectNext]_vars

(***************************************************************************)
(* Properties of the ledger (specification Spec) and of the bot process    *)
(* (specification BotSpec).                                                *)
(***************************************************************************)

\* C1: add_position for a symbol that already has a position in the ledger
\* returns false and leaves the ledger as it was.
C1_AddExistingFails ==
    [][(lastOp'.op = "add_position" /\ lastOp'.symbol \in DOMAIN positions)
          => (ret' = FALSE /\ positions' = positions)]_vars

\* C2: while a symbol's position stays in the ledger with the same side, no
\* ledger operation lowers current_stop_loss of a LONG or raises that of a
\* SHORT.
C2_StopMonotone ==
    [][\A s \in (DOMAIN positions) \cap (DOMAIN positions') :
          positions'[s].side = positions[s].side =>
              IF positions[s].side = "LONG"
              THEN positions'[s].current_stop_loss >= positions[s].current_stop_loss
              ELSE positions'[s].current_stop_loss <= positions[s].current_stop_loss]_vars

\* C3: update_trailing_stop(symbol, candidate) returns true and sets
\* current_stop_loss to the candidate, changing nothing else, when the symbol
\* is in the ledger and the candidate is strictly more favorable (LONG:
\* higher, SHORT: lower); otherwise it returns false and the ledger and the
\* file are unchanged.
C3_UpdateTrailingStopContract ==
    [][lastOp'.op = "update_trailing_stop" =>
          LET s == lastOp'.symbol
              candidate == lastOp'.arg
          IN  IF /\ s \in DOMAIN positions
                 /\ \/ /\ positions[s].side = "LONG"
                       /\ candidate > positions[s].current_stop_loss
                    \/ /\ positions[s].side = "SHORT"
                       /\ candidate < positions[s].current_stop_loss
              THEN /\ ret' = TRUE
                   /\ DOMAIN positions' = DOMAIN positions
                   /\ \A x \in DOMAIN positions : x # s => positions'[x] = positions[x]
                   /\ positions'[s].current_stop_loss = candidate
                   /\ \A k \in DOMAIN positions[s] :
                         k # "current_stop_loss" => positions'[s][k] = positions[s][k]
                   /\ file' = file
              ELSE /\ ret' = FALSE
                   /\ positions' = positions
                   /\ file' = file]_vars

\* C3 witness: an update that was accepted, and the stop is the candidate.
C3_Witness ==
    /\ lastOp.op = "update_trailing_stop"
    /\ ret = TRUE
    /\ lastOp.symbol \in DOMAIN positions
    /\ positions[lastOp.symbol].current_stop_loss = lastOp.arg
    /\ positions[lastOp.symbol].side = "SHORT"

\* C4: once trailing_stop_active is true for a position, it is true after
\* every later ledger operation that keeps that position in the ledger.
C4_LatchOneWay ==
    [][\A s \in (DOMAIN positions) \cap (DOMAIN positions') :
          (lastOp'.op # "add_position" /\ positions[s].trailing_stop_active)
              => positions'[s].trailing_stop_active]_vars

\* C5: a call of should_activate_trailing_stop for a position for which an
\* earlier call returned true returns true at any price; a call before that
\* returns true exactly when the favorable move is at least the threshold.
C5_LatchCallContract ==
    [][(lastOp'.op = "should_activate_trailing_stop"
            /\ lastOp'.symbol \in DOMAIN positions) =>
          LET s == lastOp'.symbol
              p == positions[s]
              move == IF p.side = "LONG"
                      THEN (lastOp'.arg - p.entry_price) * BasisPoints
                      ELSE (p.entry_price - lastOp'.arg) * BasisPoints
          IN  IF s \in activated
              THEN ret' = TRUE
              ELSE ret' = (move >= TRAILING_STOP_PERCENT * p.entry_price)]_vars

\* C6: no trading cycle starts in a bot instance whose startup
\* reconciliation has not returned success.
C6_NoCycleBeforeReconcile ==
    pc \in CyclePcs => reconciled

\* C7: when the open-positions query of the startup reconciliation fails,
\* initialization reports failure, run() is not entered, and the ledger is
\* the one loaded from the file, not an empty book.
C7_QueryFailureIsFatal ==
    (lastOp.op = "initialize_components"
        /\ query.outcome \in {"api_exception", "other_exception"})
    => /\ ret = FALSE
       /\ pc # "run"
       /\ positions = load_positions_from_file(file, EmptyLedger).positions

\* C8: after reconcile_positions returned true the ledger holds exactly the
\* reported positions with a non-zero amount, each OPEN, LONG for a positive
\* and SHORT for a negative amount, with the absolute amount, the reported
\* entry price and stop_loss, take_profit and current_stop_loss 0.
C8_ReconcileMatchesReport ==
    (lastOp.op = "reconcile_positions" /\ ret = TRUE) =>
        LET reported == IF query.outcome = "ok"
                        THEN {s \in DOMAIN query.book : query.book[s].positionAmt # 0}
                        ELSE {}
        IN  /\ DOMAIN positions = reported
            /\ \A s \in reported :
                  LET amt == query.book[s].positionAmt IN
                  /\ positions[s].symbol = s
                  /\ positions[s].status = "OPEN"
                  /\ positions[s].side = (IF amt > 0 THEN "LONG" ELSE "SHORT")
                  /\ positions[s].quantity = (IF amt > 0 THEN amt ELSE 0 - amt)
                  /\ positions[s].quantity > 0
                  /\ positions[s].entry_price = query.book[s].entryPrice
                  /\ positions[s].stop_loss = 0
                  /\ positions[s].take_profit = 0
                  /\ positions[s].current_stop_loss = 0

\* C8 witness: a reconciliation against a report with a long and a short.
C8_Witness ==
    /\ lastOp.op = "reconcile_positions"
    /\ ret = TRUE
    /\ query.outcome = "ok"
    /\ DOMAIN positions = Symbols
    /\ positions["BTCUSDT"].side = "LONG"
    /\ positions["ETHUSDT"].side = "SHORT"
    /\ positions["ETHUSDT"].quantity = 1

\* C9: after add_position, after remove_position and after a reconciliation
\* that emptied the ledger, positions.json holds the in-memory ledger.
C9_FileEqualsLedger ==
    (/\ ret = TRUE
     /\ \/ lastOp.op \in {"add_position", "remove_position"}
        \/ lastOp.op = "reconcile_positions" /\ positions = EmptyLedger)
    => file = CompleteFile(positions)

\* C10: a kill at any point of save_positions_to_file leaves positions.json
\* holding either what it held before the save or the complete ledger being
\* saved, so that load_positions_from_file still succeeds on a file it
\* succeeded on before.
C10_AtomicSave ==
    [][pc' = "crashed" =>
          /\ file' = file \/ file' = CompleteFile(positions)
          /\ load_positions_from_file(file, EmptyLedger).ret
                => load_positions_from_file(file', EmptyLedger).ret]_vars

\* C11: in the analyze, the execute and the monitor phase of a cycle, a symbol
\* whose handling fails (an exception, a failed exchange or feed call) keeps
\* no other symbol that is due in that phase from being handled, and the
\* cycle goes on.
C11_SymbolFailureIsolated ==
    lastOp.op \in {"analyze_markets_safe", "execute_trades_safe",
                   "monitor_positions_safe"}
        => /\ pc \in CyclePcs
           /\ lastOp.arg.failed # {} => lastOp.arg.due \subseteq lastOp.arg.handled

\* C12: once the signal handler has cleared running, no iteration of the loop
\* starts and the iteration in progress runs through its phases; the loop is
\* left only into shutdown() (signal, failure limit, cancellation,
\* exception); and shutdown() saves the ledger: when the write succeeds
\* positions.json holds exactly the ledger.
C12_ShutdownPersists ==
    [][ /\ (pc = "loop" /\ pc' = "analyze" => running)
        /\ (~running /\ pc \in CyclePcs /\ pc' # pc /\ lastOp'.op # "CancelledError"
               => pc' = CASE pc = "analyze" -> "execute"
                          [] pc = "execute" -> "monitor"
                          [] pc = "monitor" -> "cycle_end"
                          [] pc = "cycle_end" ->
                               IF lastOp'.op = "run_cycle_safe" /\ ~ret'
                                  /\ consecutive_failures' >= max_failures
                               THEN "shutdown" ELSE "loop")
        /\ (pc \in CyclePcs \cup {"loop"} /\ pc' \notin CyclePcs \cup {"loop"}
               => pc' = "shutdown")
        /\ (pc' = "stopped" /\ pc # "stopped"
               => /\ pc = "shutdown"
                  /\ lastOp'.op = "shutdown"
                  /\ positions' = positions
                  /\ file' = IF ret' THEN CompleteFile(positions) ELSE file) ]_vars

C12_Witness ==
    /\ pc = "stopped"
    /\ ~running
    /\ cycle_count >= 1
    /\ consecutive_failures = 0
    /\ lastOp = Op("shutdown", "-", 0)
    /\ ret
    /\ positions # EmptyLedger
    /\ file = CompleteFile(positions)

\* C13: once shutdown() has completed the streamer has been told to stop
\* (is_running is false) and no message changes the candle cache or the
\* current prices any more.
C13_StreamStopped ==
    [][pc = "stopped" => /\ ~is_running
                         /\ klines' = klines
                         /\ current_prices' = current_prices]_vars

\* C14: a monitor pass that has the price of a symbol whose tracked position
\* the exchange has closed leaves no ledger entry for that symbol.
C14_ClosedPositionRemoved ==
    lastOp.op = "monitor_positions_safe"
        => \A s \in lastOp.arg.closed : s \notin DOMAIN positions

\* C15: execute_trades_safe leaves the same ledger, reports the same trades
\* as successful and handles the same symbols as it does when every
\* notification of the pass is delivered.
C15_NotificationFailureHarmless ==
    pc = "returned" /\ lastOp.op = "execute_trades_safe"
        => LET a == lastOp.arg
               delivered == [s \in Symbols |-> [a.calls[s] EXCEPT !.notify = "sent"]]
               r == execute_trades_safe(a.ledger, {}, a.results, delivered)
           IN  /\ positions = r.positions
               /\ ret.success = r.success
               /\ ret.handled = r.handled
               /\ ret.failed = r.failed

C15_Witness ==
    /\ pc = "returned"
    /\ lastOp.op = "execute_trades_safe"
    /\ lastOp.arg.ledger = EmptyLedger
    /\ lastOp.arg.calls["BTCUSDT"] =
           [query |-> NothingOpen, order |-> "filled", notify |-> "request_exception"]
    /\ lastOp.arg.calls["ETHUSDT"] =
           [query |-> NothingOpen, order |-> "filled", notify |-> "sent"]
    /\ ret.success = {"BTCUSDT", "ETHUSDT"}
    /\ DOMAIN positions = {"BTCUSDT", "ETHUSDT"}

\* C16: analyze_symbol returns HOLD with confidence 0, raising nothing,
\* whenever the 4h feed delivers fewer than 200 candles or the 15m feed
\* fewer than 100 (none at all included).
C16_ShortSeriesHold ==
    (/\ pc = "returned"
     /\ lastOp.op = "analyze_symbol"
     /\ LET d4 == IF lastOp.arg.feed_4h.outcome = "ok"
                  THEN lastOp.arg.feed_4h.len ELSE 0
            d15 == IF lastOp.arg.feed_15m.outcome = "ok"
                   THEN lastOp.arg.feed_15m.len ELSE 0
        IN  d4 < Limit4h \/ d15 < Limit15m)
    => /\ ~ret.raised
       /\ ret.result.signal = "HOLD"
       /\ ret.result.confidence = 0

\* C17: generate_signal gives LONG exactly when the trend is UPTREND, the
\* close crossed above EMA20 between the last two candles, RSI is in
\* [RSI_BUY_ENTRY, RSI_OVERBOUGHT] and MACD > SIGNAL; SHORT exactly under the
\* mirror conditions; HOLD otherwise, any unavailable indicator included.
C17_SignalRule ==
    (pc = "returned" /\ lastOp.op = "generate_signal") =>
        LET a == lastOp.arg
            k == a.klines_15m
            ema_ok == k.len >= EMA_20_PERIOD + 1 /\ ~k.ema.nan /\ ~k.prev_ema.nan
            rsi_ok == ~a.rsi_15m.nan
            macd_ok == /\ a.macd_15m.present
                       /\ ~a.macd_15m.MACD.nan /\ ~a.macd_15m.SIGNAL.nan
            long == /\ a.trend_4h = "UPTREND"
                    /\ ema_ok /\ rsi_ok /\ macd_ok
                    /\ k.prev_close.v < k.prev_ema.v /\ k.close.v > k.ema.v
                    /\ a.rsi_15m.v >= RSI_BUY_ENTRY
                    /\ a.rsi_15m.v <= RSI_OVERBOUGHT
                    /\ a.macd_15m.MACD.v > a.macd_15m.SIGNAL.v
            short == /\ a.trend_4h = "DOWNTREND"
                     /\ ema_ok /\ rsi_ok /\ macd_ok
                     /\ k.prev_close.v > k.prev_ema.v /\ k.close.v < k.ema.v
                     /\ a.rsi_15m.v >= RSI_OVERSOLD
                     /\ a.rsi_15m.v <= RSI_SELL_ENTRY
                     /\ a.macd_15m.MACD.v < a.macd_15m.SIGNAL.v
        IN  /\ (ret = "LONG") <=> long
            /\ (ret = "SHORT") <=> short
            /\ (ret = "HOLD") <=> (~long /\ ~short)

\* C17 witness: a LONG generated with RSI at the lower bound of its range.
C17_Witness ==
    /\ pc = "returned"
    /\ lastOp.op = "generate_signal"
    /\ ret = "LONG"
    /\ lastOp.arg.rsi_15m = Num(RSI_BUY_ENTRY)

\* C18: the confidence of a completed analysis is 0.3 for a directional
\* trend, plus 0.2 for RSI in the closed interval [30, 70], plus 0.3 when the
\* MACD direction and sign match the signal, plus 0.2 for a signal other
\* than HOLD, clipped to 1.
C18_ConfidenceSum ==
    (/\ pc = "returned"
     /\ lastOp.op = "analyze_symbol"
     /\ lastOp.arg.feed_4h = [outcome |-> "ok", len |-> Limit4h]
     /\ lastOp.arg.feed_15m = [outcome |-> "ok", len |-> Limit15m])
    => LET r == ret.result
           m == r.macd_15m
           macd_ok == m.present /\ ~m.MACD.nan /\ ~m.SIGNAL.nan
           c1 == IF r.trend_4h \in {"UPTREND", "DOWNTREND"} THEN 3 ELSE 0
           c2 == IF r.rsi_15m.v >= 30 /\ r.rsi_15m.v <= 70 THEN 2 ELSE 0
           c3 == IF /\ macd_ok
                    /\ \/ /\ r.signal = "LONG"
                          /\ m.MACD.v > m.SIGNAL.v /\ m.MACD.v > 0
                       \/ /\ r.signal = "SHORT"
                          /\ m.MACD.v < m.SIGNAL.v /\ m.MACD.v < 0
                 THEN 3 ELSE 0
           c4 == IF r.signal # "HOLD" THEN 2 ELSE 0
           total == c1 + c2 + c3 + c4
       IN  r.confidence = (IF total > Tenths THEN Tenths ELSE total)

\* C19: analyze_symbol raises nothing and returns a signal among LONG, SHORT
\* and HOLD with a confidence in [0, 1], whatever the feeds deliver; when
\* the series is too short for RSI, MACD, EMA20 or EMA200, or MACD is
\* missing, the signal is HOLD.
C19_WellFormedSignal ==
    (pc = "returned" /\ lastOp.op = "analyze_symbol") =>
        LET m == lastOp.arg
            d4 == IF m.feed_4h.outcome = "ok" THEN m.feed_4h.len ELSE 0
            d15 == IF m.feed_15m.outcome = "ok" THEN m.feed_15m.len ELSE 0
            unavailable ==
                \/ d4 < EMA_200_PERIOD
                \/ d15 < EMA_20_PERIOD + 1
                \/ d15 <= RSI_PERIOD
                \/ d15 < MACD_SLOW_PERIOD + MACD_SIGNAL_PERIOD - 1
                \/ ~m.macd.present
        IN  /\ ~ret.raised
            /\ ret.result.symbol = lastOp.symbol
            /\ ret.result.signal \in {"LONG", "SHORT", "HOLD"}
            /\ ret.result.confidence \in 0..Tenths
            /\ unavailable => ret.result.signal = "HOLD"

\* C19 witness: every entry condition met except that the 15m series is too
\* short for the MACD signal line, and the library raises on it.
C19_Witness ==
    /\ pc = "returned"
    /\ lastOp.op = "analyze_symbol"
    /\ lastOp.arg.feed_4h = [outcome |-> "ok", len |-> Limit4h]
    /\ lastOp.arg.feed_15m = [outcome |-> "ok", len |-> 30]
    /\ lastOp.arg.short = "None"
    /\ lastOp.arg.close_4h = Num(101)
    /\ lastOp.arg.k15.prev_close = Num(99)
    /\ lastOp.arg.k15.close = Num(101)
    /\ lastOp.arg.rsi = Num(55)
    /\ lastOp.arg.macd = MacdOf(Num(12), Num(10))
    /\ ret.result.trend_4h = "UPTREND"
    /\ ret.result.signal = "HOLD"
    /\ ret.result.confidence = 0

\* C20: can_open_new_position returns true exactly when the position query
\* succeeded and reports fewer than MAX_CONCURRENT_TRADES positions with a
\* non-zero amount; a failed query gives false.
C20_CanOpenIffBelowLimit ==
    (pc = "returned" /\ lastOp.op = "can_open_new_position") =>
        (ret <=> /\ query.outcome = "ok"
                 /\ Cardinality({s \in DOMAIN query.book :
                                    query.book[s].positionAmt # 0})
                       < MAX_CONCURRENT_TRADES)

(***************************************************************************)
(* Properties of the risk manager (specification RiskSpec).                *)
(***************************************************************************)

\* C21: calculate_position_size(balance, entry, stop) returns 0 when entry
\* equals stop and otherwise the smaller of balance * max_risk / |entry - stop|
\* and balance * max_position; the result never exceeds balance * max_position.
C21_PositionSize ==
    pc = "returned" /\ lastOp.op = "calculate_position_size"
        => LET a == lastOp.arg
               cap == RMul(a.account_balance, Fraction(MAX_POSITION_SIZE_PERCENT))
               by_risk == RDiv(RMul(a.account_balance, Fraction(MAX_RISK_PER_TRADE)),
                               RAbs(RSub(a.entry_price, a.stop_loss_price)))
           IN  /\ a.entry_price = a.stop_loss_price => ret = Zero
               /\ a.entry_price # a.stop_loss_price
                     => /\ ret \in {by_risk, cap}
                        /\ RLe(ret, by_risk)
               /\ RLe(ret, cap)

\* balance 1000, entry 100, stop 98 gives 10
C21_Witness ==
    /\ pc = "returned"
    /\ lastOp = Op("calculate_position_size", "-",
                   [account_balance |-> Whole(1000), entry_price |-> Cents(10000),
                    stop_loss_price |-> Cents(9800)])
    /\ ret = Whole(10)

\* C22: validate_trade_parameters accepts exactly when entry, stop, target and
\* size are all strictly positive and the ordering of the side holds (LONG:
\* stop < entry < target; SHORT: target < entry < stop); a reward/risk more
\* than 10% below the configured ratio is logged as a warning and is still
\* accepted.
C22_ValidateExactly ==
    pc = "returned" /\ lastOp.op = "validate_trade_parameters"
        => LET a == lastOp.arg
               positive ==
                   /\ RLt(Zero, a.entry_price)
                   /\ RLt(Zero, a.stop_loss)
                   /\ RLt(Zero, a.take_profit)
                   /\ RLt(Zero, a.position_size_usdt)
               ordered ==
                   IF a.side = "LONG"
                   THEN RLt(a.stop_loss, a.entry_price)
                           /\ RLt(a.entry_price, a.take_profit)
                   ELSE RLt(a.take_profit, a.entry_price)
                           /\ RLt(a.entry_price, a.stop_loss)
               \* reward < 0.9 * ratio * risk
               below ==
                   RLt(RAbs(RSub(a.take_profit, a.entry_price)),
                       RMul(RMul(Rat(9, 10), Fraction(RISK_REWARD_RATIO)),
                            RAbs(RSub(a.entry_price, a.stop_loss))))
           IN  /\ ret.valid <=> (positive /\ ordered)
               /\ ret.warned <=> (positive /\ ordered /\ below)

\* LONG at 100 with the stop at 98 and the target at 102: reward/risk 1 is
\* below 1.35, and the bracket is accepted with a warning
C22_Witness ==
    /\ pc = "returned"
    /\ lastOp = Op("validate_trade_parameters", "-",
                   [side |-> "LONG", entry_price |-> Cents(10000),
                    stop_loss |-> Cents(9800), take_profit |-> Cents(10200),
                    position_size_usdt |-> Whole(10)])
    /\ ret = [valid |-> TRUE, warned |-> TRUE]

\* C23: calculate_take_profit returns entry + |entry - stop| * risk_reward_ratio
\* for LONG and entry - |entry - stop| * risk_reward_ratio for SHORT; for a
\* stop on the protective side the target lies strictly on the other side of
\* the entry and reward / risk equals the configured ratio.
C23_TakeProfit ==
    pc = "returned" /\ lastOp.op = "calculate_take_profit"
        => LET a == lastOp.arg
               risk == RAbs(RSub(a.entry_price, a.stop_loss_price))
               reward == RAbs(RSub(ret, a.entry_price))
               ratio == Fraction(RISK_REWARD_RATIO)
           IN  /\ a.side = "LONG"
                     => /\ ret = RAdd(a.entry_price, RMul(risk, ratio))
                        /\ RLt(a.stop_loss_price, a.entry_price)
                              => /\ RLt(a.entry_price, ret)
                                 /\ RDiv(reward, risk) = ratio
               /\ a.side = "SHORT"
                     => /\ ret = RSub(a.entry_price, RMul(risk, ratio))
                        /\ RLt(a.entry_price, a.stop_loss_price)
                              => /\ RLt(ret, a.entry_price)
                                 /\ RDiv(reward, risk) = ratio

\* LONG at 100 with the stop at 98 gives 103
C23_Witness ==
    /\ pc = "returned"
    /\ lastOp = Op("calculate_take_profit", "-",
                   [entry_price |-> Cents(10000), stop_loss_price |-> Cents(9800),
                    side |-> "LONG"])
    /\ ret = Whole(103)

\* C24: RiskManager.update_trailing_stop returns a value only when the
\* position's favorable move is at least the activation threshold, and the
\* value is then current_price * (1 - trailing_percent) for a long and
\* current_price * (1 + trailing_percent) for a short; below the threshold it
\* returns None; the ledger is never changed by it.
C24_TrailingProposal ==
    pc = "returned" /\ lastOp.op = "RiskManager.update_trailing_stop"
        => LET p == lastOp.arg.position
               c == lastOp.arg.current_price
               exchange_entry ==
                   /\ {"positionAmt", "entryPrice"} \subseteq DOMAIN p
                   /\ p.positionAmt # 0
                   /\ p.entryPrice # 0
               e == Cents(p.entryPrice)
               move == IF p.positionAmt > 0
                       THEN RDiv(RSub(c, e), e)
                       ELSE RDiv(RSub(e, c), e)
               threshold == Fraction(TRAILING_STOP_PERCENT)
           IN  /\ ~ret.none => exchange_entry /\ RLe(threshold, move)
               /\ exchange_entry /\ RLe(threshold, move)
                     => ret = Proposal(IF p.positionAmt > 0
                                       THEN RMul(c, RSub(Whole(1), threshold))
                                       ELSE RMul(c, RAdd(Whole(1), threshold)))
               /\ exchange_entry /\ RLt(move, threshold) => ret.none
               /\ positions = StaleLedger

\* a long from 100.00 at 100.75, exactly the threshold: the proposal is
\* 100.75 * 0.9925
C24_Witness ==
    /\ pc = "returned"
    /\ lastOp = Op("RiskManager.update_trailing_stop", "-",
                   [position |-> WithSymbol("BTCUSDT", LongInfo),
                    current_price |-> Cents(10075)])
    /\ ret = Proposal(Rat(10075 * 9925, 100 * BasisPoints))
    /\ positions = StaleLedger

(***************************************************************************)
(* Further properties of the ledger (specification Spec).                  *)
(***************************************************************************)

\* C25: remove_position for a symbol that is not in the ledger raises nothing,
\* returns false and leaves every position as it was; for a symbol in the
\* ledger it removes exactly that entry and leaves every other entry as it was.
C25_RemoveExactly ==
    [][ lastOp'.op = "remove_position"
           => LET s == lastOp'.symbol
              IN  IF s \in DOMAIN positions
                  THEN /\ ret' = TRUE
                       /\ DOMAIN positions' = DOMAIN positions \ {s}
                       /\ \A k \in DOMAIN positions' : positions'[k] = positions[k]
                  ELSE /\ ret' = FALSE
                       /\ positions' = positions ]_vars

\* remove_position("ETHUSDT") was refused while BTCUSDT is held
C25_Witness ==
    /\ lastOp = Op("remove_position", "ETHUSDT", 0)
    /\ ret = FALSE
    /\ DOMAIN positions = {"BTCUSDT"}

\* C26: after any sequence of add, remove, update and reconcile operations
\* the ledger holds at most one position per symbol: every entry is the
\* position of the symbol it is stored under.
C26_OnePositionPerSymbol ==
    /\ DOMAIN positions \subseteq Symbols
    /\ \A s \in Symbols :
          Cardinality({k \in DOMAIN positions : positions[k].symbol = s}) <= 1

\* a second add_position for BTCUSDT succeeded and the ledger, which also
\* holds ETHUSDT, has one BTCUSDT entry
C26_Witness ==
    /\ lastOp = Op("add_position", "BTCUSDT", 0)
    /\ ret = TRUE
    /\ DOMAIN positions = Symbols
    /\ positions["BTCUSDT"].side = "SHORT"
    /\ positions["BTCUSDT"].symbol = "BTCUSDT"
    /\ positions["ETHUSDT"].symbol = "ETHUSDT"

(***************************************************************************)
(* Properties of the candle cache (specification StreamSpec).              *)
(***************************************************************************)

C28_LockDiscipline ==
    /\ [][ klines' # klines \/ current_prices' # current_prices
              => lock = "stream" ]_vars
    /\ [][ pc = "reading" /\ pc' = "read"
              => /\ lock = "main"
                 /\ \A s \in DOMAIN current_prices :
                       \E n \in DOMAIN klines :
                          /\ n[1] = s
                          /\ klines[n][Len(klines[n])].c = current_prices[s] ]_vars
    /\ [](lock = "stream" => ENABLED StreamTask)
    /\ [](lock = "main" => ENABLED MainTask)
    /\ [](ENABLED LockNext)

\* the main thread has read the price of BTCUSDT under the lock while the
\* stream thread waits for the lock with the next message
C28_Witness ==
    /\ pc = "read"
    /\ lock = "main"
    /\ lastOp = Op("get_current_price", "BTCUSDT", "-")
    /\ ret = {10100}
    /\ stream_pc = "process"

(***************************************************************************)
(* Properties of the ledger under a moving price (specification PnlSpec).  *)
(***************************************************************************)

\* C29: update_position_pnl sets current_pnl to (price - entry) * quantity for
\* a LONG and (entry - price) * quantity for a SHORT; max_profit starts at 0,
\* never decreases and is the largest favorable-move percent seen so far; for
\* a symbol that is not in the ledger it returns 0 and changes nothing.
C29_PnlAndMaxProfit ==
    [][ /\ lastOp'.op = "add_position"
           => positions'[lastOp'.symbol].max_profit = 0
        /\ lastOp'.op = "update_position_pnl"
           => LET s == lastOp'.symbol
                  price == lastOp'.arg
              IN  IF s \notin DOMAIN positions
                  THEN ret' = 0 /\ positions' = positions
                  ELSE LET p == positions[s]
                           q == positions'[s]
                           gain == IF p.side = "LONG"
                                   THEN price - p.entry_price
                                   ELSE p.entry_price - price
                       IN  /\ q.current_pnl = gain * p.quantity
                           /\ ret' = q.current_pnl
                           /\ q.max_profit >= p.max_profit
                           /\ q.max_profit * p.entry_price
                                 = IF gain * BasisPoints > p.max_profit * p.entry_price
                                   THEN gain * BasisPoints
                                   ELSE p.max_profit * p.entry_price
                           /\ \A k \in DOMAIN positions \ {s} :
                                 positions'[k] = positions[k] ]_vars

\* a LONG from 100.00 that was at 101.00 and is now at 100.50: the PnL is
\* 0.50 and max_profit is still 1%
C29_Witness ==
    /\ lastOp = Op("update_position_pnl", "BTCUSDT", 10050)
    /\ "BTCUSDT" \in DOMAIN positions
    /\ positions["BTCUSDT"].side = "LONG"
    /\ positions["BTCUSDT"].current_pnl = 50
    /\ positions["BTCUSDT"].max_profit = 100
    /\ ret = 50

(***************************************************************************)
(* Properties of the monitoring pass (specification BotSpec).              *)
(***************************************************************************)

\* C30: in a monitoring pass, a position whose favorable move has reached the
\* activation threshold has its trailing stop activated, and the proposed stop
\* price * (1 - threshold) for a LONG, price * (1 + threshold) for a SHORT,
\* becomes its current_stop_loss if and only if it is strictly more favorable
\* than the current value.  (Stops are compared in units of 1/BasisPoints.)
C30_TrailingApplied ==
    [][ pc = "monitor" /\ lastOp'.op = "monitor_positions_safe"
          => \A s \in DOMAIN positions :
                LET p == positions[s]
                    price == lastOp'.arg.prices[s]
                    gain == IF p.side = "LONG" THEN price - p.entry_price
                            ELSE p.entry_price - price
                    proposed == IF p.side = "LONG"
                                THEN price * (BasisPoints - TRAILING_STOP_PERCENT)
                                ELSE price * (BasisPoints + TRAILING_STOP_PERCENT)
                    current == p.current_stop_loss * BasisPoints
                    better == IF p.side = "LONG" THEN proposed > current
                              ELSE proposed < current
                IN  price # 0 /\ p.entry_price # 0
                       /\ gain * BasisPoints >= TRAILING_STOP_PERCENT * p.entry_price
                    => /\ s \in DOMAIN positions'
                       /\ positions'[s].trailing_stop_active
                       /\ positions'[s].current_stop_loss * BasisPoints
                             = IF better THEN proposed ELSE current ]_vars

\* C31: a trade attempt adds its symbol to the ledger only when the market
\* entry order it sent was accepted by the exchange; when the market order
\* fails, the attempt sends no stop-loss or take-profit order, leaves the
\* ledger as it was and returns False.
C31_EntryConfirmedFirst ==
    pc = "returned" /\ lastOp.op = "_execute_real_trade"
        => LET s == lastOp.symbol
               sent == ret.orders
           IN  /\ s \in DOMAIN positions
                    => /\ sent # <<>>
                       /\ sent[1].type = "MARKET"
                       /\ sent[1].accepted
               /\ (sent # <<>> /\ ~sent[1].accepted)
                    => /\ Len(sent) = 1
                       /\ positions = lastOp.arg.ledger
                       /\ ret.ret = FALSE

C31_Witness ==
    /\ pc = "returned"
    /\ lastOp.op = "_execute_real_trade"
    /\ lastOp.arg.ex.market = "order_exception"
    /\ Len(ret.orders) = 1
    /\ ret.orders[1].type = "MARKET"
    /\ ~ret.orders[1].accepted
    /\ positions = lastOp.arg.ledger
    /\ ret.ret = FALSE

\* C32: execute_trades_safe attempts a trade only for an analysis whose
\* signal is LONG or SHORT with a confidence of at least the threshold, and
\* does attempt it for a confidence equal to the threshold when nothing else
\* stands in the way; for a symbol whose analysis is HOLD or below the
\* threshold no trade is attempted and its ledger entry stays as it was.
C32_OnlyConfidentSignals ==
    pc = "returned" /\ lastOp.op = "execute_trades_safe"
        => \A i \in DOMAIN lastOp.arg.results :
              LET a == lastOp.arg.results[i]
                  entry == /\ a.signal \in {"LONG", "SHORT"}
                           /\ a.confidence >= CONFIDENCE_THRESHOLD
              IN  /\ a.symbol \in ret.attempted => entry
                  /\ ~entry
                       => get_position(positions, a.symbol)
                              = get_position(lastOp.arg.ledger, a.symbol)
                  /\ (/\ entry
                      /\ i = 1
                      /\ a.symbol \notin DOMAIN lastOp.arg.ledger
                      /\ lastOp.arg.calls[a.symbol].query = NothingOpen)
                       => a.symbol \in ret.attempted

C32_Witness ==
    /\ pc = "returned"
    /\ lastOp.op = "execute_trades_safe"
    /\ lastOp.arg.ledger = EmptyLedger
    /\ lastOp.arg.results = <<AnalysisOf("BTCUSDT", "LONG_low"),
                              AnalysisOf("ETHUSDT", "SHORT_at")>>
    /\ \A s \in Symbols :
          lastOp.arg.calls[s] =
              [query |-> NothingOpen, order |-> "filled", notify |-> "sent"]
    /\ ret.attempted = {"ETHUSDT"}
    /\ DOMAIN positions = {"ETHUSDT"}

\* C34: a position the trade attempt records with a non-zero stop_loss has
\* an accepted reduce-only STOP_MARKET order at that price among the orders
\* of the attempt, and an attempt whose stop-loss order was not accepted
\* after the market order filled does not return True.
C34_RecordedStopRests ==
    pc = "returned" /\ lastOp.op = "_execute_real_trade"
        => LET s == lastOp.symbol
               sent == ret.orders
           IN  /\ (s \in DOMAIN positions /\ positions[s].stop_loss # Zero)
                    => \E i \in DOMAIN sent :
                          /\ sent[i].type = "STOP_MARKET"
                          /\ sent[i].reduceOnly
                          /\ sent[i].accepted
                          /\ sent[i].stopPrice = positions[s].stop_loss
               /\ (\E i \in DOMAIN sent :
                      sent[i].type = "STOP_MARKET" /\ ~sent[i].accepted)
                    => ret.ret = FALSE

\* C33: after a monitoring pass, a position in whose pass the update of the
\* exchange-side stop failed, and any position whose current_stop_loss was
\* advanced beyond its initial stop_loss, has an accepted STOP_MARKET order
\* at its current_stop_loss on the exchange.
C33_LedgerStopOnExchange ==
    lastOp.op = "monitor_positions_safe"
        => \A s \in DOMAIN positions :
              (\/ s \in lastOp.arg.failed
               \/ positions[s].current_stop_loss # positions[s].stop_loss)
                 => \E i \in DOMAIN ret.orders :
                       /\ ret.orders[i].type = "STOP_MARKET"
                       /\ ret.orders[i].accepted
                       /\ ret.orders[i].stopPrice
                              = Cents(positions[s].current_stop_loss)

\* C35: a trade attempt sends an entry order only with a balance above 0, an
\* entry price above 0, a size check_risk_limits accepts and a bracket
\* validate_trade_parameters accepts; the bracket of every entry order sent
\* is ordered (LONG: stop < entry < target, SHORT: target < entry < stop) and
\* the order's quantity times the entry price lies within
\* [2, balance * max_position_size_percent].
C35_EntryOrderWithinLimits ==
    (pc = "returned" /\ lastOp.op = "_execute_real_trade" /\ ret.orders # <<>>)
        => LET a == lastOp.arg.analysis
               ex == lastOp.arg.ex
               balance == IF ex.account = "ok" THEN ex.balance ELSE Zero
               entry == a.current_price
               stop == calculate_stop_loss(ex.klines_15m, a.signal, entry)
               target == calculate_take_profit(entry, stop, a.signal)
               size == calculate_position_size(balance, entry, stop)
               notional == RMul(ret.orders[1].quantity, entry)
           IN  /\ RLt(Zero, balance)
               /\ RLt(Zero, entry)
               /\ check_risk_limits(size, balance)
               /\ validate_trade_parameters(a.signal, entry, stop, target,
                                            size).valid
               /\ ret.orders[1].type = "MARKET"
               /\ IF a.signal = "LONG"
                  THEN RLt(stop, entry) /\ RLt(entry, target)
                  ELSE RLt(target, entry) /\ RLt(entry, stop)
               /\ RLe(Whole(2), notional)
               /\ RLe(notional,
                      RMul(balance, Fraction(MAX_POSITION_SIZE_PERCENT)))

\* C36: execute_trades_safe attempts no trade for a symbol that has a ledger
\* entry when its pass begins (so add_position is never called for a symbol
\* already in the ledger), and once the position query of a signal's pass
\* shows the limit reached, or fails, neither that signal nor any later
\* signal of the cycle is attempted.
C36_NoDuplicateNoOverLimit ==
    pc = "returned" /\ lastOp.op = "execute_trades_safe"
        => LET signals == HighConfidenceSignals(lastOp.arg.results)
               refused(i) ==
                   LET q == lastOp.arg.calls[signals[i].symbol].query
                   IN  q = LimitReached \/ q.outcome = "other_exception"
           IN  /\ ret.attempted \cap DOMAIN lastOp.arg.ledger = {}
               /\ \A i \in DOMAIN signals :
                     (\E j \in 1..i : refused(j))
                         => /\ signals[i].symbol \notin ret.attempted
                            /\ get_position(positions, signals[i].symbol)
                                 = get_position(lastOp.arg.ledger,
                                                signals[i].symbol)

C36_Witness ==
    /\ pc = "returned"
    /\ lastOp.op = "execute_trades_safe"
    /\ lastOp.arg.ledger = StaleLedger
    /\ lastOp.arg.results = <<AnalysisOf("BTCUSDT", "LONG"),
                              AnalysisOf("ETHUSDT", "SHORT")>>
    /\ lastOp.arg.calls["BTCUSDT"] =
           [query |-> NothingOpen, order |-> "filled", notify |-> "sent"]
    /\ lastOp.arg.calls["ETHUSDT"] =
           [query |-> LimitReached, order |-> "filled", notify |-> "sent"]
    /\ ret.handled = {"BTCUSDT", "ETHUSDT"}
    /\ ret.attempted = {}
    /\ positions = StaleLedger

\* C37: a call of reconcile_positions that meets an exception, raised by the
\* exchange query or by a malformed entry of its answer, returns False, and
\* a call that returns False leaves the ledger and positions.json exactly as
\* they were.
C37_ReconcileAllOrNothing ==
    [][lastOp'.op = "reconcile_positions"
          => /\ (query' \in MalformedQueries \/ query'.outcome = "other_exception")
                    => ret' = FALSE
             /\ ret' = FALSE => (positions' = positions /\ file' = file)]_vars

C37_Witness ==
    /\ lastOp.op = "reconcile_positions"
    /\ query.outcome = "ok"
    /\ query.book["BTCUSDT"] = LongInfo
    /\ "entryPrice" \notin DOMAIN query.book["ETHUSDT"]
    /\ ret = FALSE
    /\ positions = StaleLedger
    /\ file = CompleteFile(StaleLedger)

\* C38: in the loop of run() a failed cycle and an exception of the loop body
\* each add 1 to consecutive_failures and a successful cycle sets it to 0;
\* the loop is left on account of a failure exactly when that failure brings
\* the count to max_failures, so the count is below max_failures wherever the
\* loop goes on; and whenever the loop is left, shutdown() is what follows.
C38_StopsAtFiveFailures ==
    [][ /\ (pc = "cycle_end" /\ pc' # pc)
             => /\ consecutive_failures' =
                       IF ret' THEN 0 ELSE consecutive_failures + 1
                /\ pc' = IF ~ret' /\ consecutive_failures' = max_failures
                         THEN "shutdown" ELSE "loop"
        /\ (lastOp'.op = "loop Exception" /\ lastOp' # lastOp)
             => /\ consecutive_failures' = consecutive_failures + 1
                /\ pc' = IF consecutive_failures' = max_failures
                         THEN "shutdown" ELSE "loop"
        /\ pc' \in CyclePcs \cup {"loop"} => consecutive_failures' < max_failures
        /\ (pc \in CyclePcs \cup {"loop"} /\ pc' \notin CyclePcs \cup {"loop"})
             => pc' = "shutdown"
        /\ pc = "shutdown" => ENABLED (\E o \in SaveOutcomes : Shutdown(o)) ]_vars

C38_Witness ==
    /\ pc = "shutdown"
    /\ running
    /\ consecutive_failures = max_failures
    /\ lastOp = Op("run_cycle_safe", "-", 1)
    /\ ret = FALSE
    /\ cycle_count = max_failures

\* C39: the size calculate_position_size returns for a balance never exceeds
\* balance * max_position_size_percent, so check_risk_limits with the same
\* balance rejects it exactly when it is below 2 USDT; it rejects every size
\* when balance * max_position_size_percent is below 2.
C39_SizePassesCapCheck ==
    pc = "returned" /\ lastOp.op = "check_risk_limits"
        => LET cap == RMul(lastOp.arg.account_balance,
                           Fraction(MAX_POSITION_SIZE_PERCENT))
           IN  /\ RLe(ret.size, cap)
               /\ ret.accepted <=> RLe(Whole(2), ret.size)
               /\ RLt(cap, Whole(2)) => ~ret.accepted

C39_Witness ==
    /\ pc = "returned"
    /\ lastOp.op = "check_risk_limits"
    /\ lastOp.arg.account_balance = Whole(15)
    /\ lastOp.arg.entry_price = Cents(10000)
    /\ lastOp.arg.stop_loss_price = Cents(9990)
    /\ ret.size = Rat(15, 10)
    /\ ~ret.accepted

\* C40: no cached series is longer than 1000 candles; a stream message older
\* than the newest cached candle of its stream leaves the cache as it is, and
\* the newest candle's values are replaced only by a message carrying that
\* candle's timestamp.
C40_OnlyOwnTimestampOverwrites ==
    /\ [](\A n \in DOMAIN klines : Len(klines[n]) <= CacheLimit)
    /\ [][ (stream_pc = "price_written"
              /\ <<stream_msg.s, stream_msg.i>> \in DOMAIN klines)
             => LET n == <<stream_msg.s, stream_msg.i>>
                    newest == klines[n][Len(klines[n])]
                IN  /\ stream_msg.t < newest.t => klines' = klines
                    /\ (/\ Len(klines'[n]) = Len(klines[n])
                        /\ klines'[n][Len(klines[n])] # newest)
                          => stream_msg.t = newest.t ]_vars

=============================================================================
